---------------------------- MODULE Spec2Model ----------------------------
(***************************************************************************)
(* A model of the conversational shopping assistant backend:               *)
(*   - the product vector store      (app/services/vector_store.py)        *)
(*   - the upstream catalog client   (app/services/fakestore.py)           *)
(*   - the cart persistence helpers  (app/services/database.py)            *)
(*   - the tool layer                (app/tools/shopping_tools.py)         *)
(*   - the agent control loop        (app/services/agent.py)               *)
(*   - the chat route                (app/routes/chat.py)                  *)
(* Each subsystem has its own specification over the shared variables.     *)
(***************************************************************************)
EXTENDS Integers, Sequences, FiniteSets, TLC

(***************************************************************************)
(* Bounds of the model.                                                    *)
(***************************************************************************)
\* tool-requesting model steps a turn may take
MaxHops == 2
\* tool-requesting model steps all turns together may take
MaxCalls == 3
\* largest quantity the model asks add_to_cart for
MaxQuantity == 2
\* events of process_message a response stream carries
MaxEvents == 3
\* runs of the process
MaxRuns == 3
\* largest top_k a caller of search asks for
MaxTopK == 3

(***************************************************************************)
(* Values.                                                                 *)
(***************************************************************************)
\* Python's None: as an identifier, and as an object reference
None == "None"
Null == << >>

Turns == {"t1", "t2"}
ConversationIds == {"c1", "c2"}
UserIds == {"u1"}

\* The catalog served by the upstream API.  Texts are sequences of characters
\* (substring search reads them), prices are in thousandths.
Catalog ==
    << [id |-> 1, title |-> << "P", "a", "c", "k" >>, description |-> << "b", "a", "g" >>,
        price |-> 109950, category |-> "men's clothing", rating |-> [rate |-> 39, count |-> 120]],
       [id |-> 9, title |-> << "W", "D" >>, description |-> << "u", "s", "b" >>,
        price |-> 64000, category |-> "electronics", rating |-> [rate |-> 33, count |-> 203]] >>

\* A catalog of five products, as a store may hold it; two prices have a
\* third decimal.
Shelf ==
    SubSeq(Catalog, 1, 1)
    \o << [id |-> 2, title |-> << "T", "e", "e" >>, description |-> << "f", "i", "t" >>,
           price |-> 22304, category |-> "men's clothing",
           rating |-> [rate |-> 41, count |-> 259]] >>
    \o SubSeq(Catalog, 2, 2)
    \o << [id |-> 14, title |-> << "M", "o", "n" >>, description |-> << "w", "i", "d", "e" >>,
           price |-> 999990, category |-> "electronics",
           rating |-> [rate |-> 22, count |-> 140]],
          [id |-> 7, title |-> << "R", "i", "n", "g" >>, description |-> << "g", "o", "l", "d" >>,
           price |-> 9994, category |-> "jewelery",
           rating |-> [rate |-> 30, count |-> 400]] >>

\* product ids a model may name: two of the catalog and one that is not
ProductIds == {1, 9, 999}
Quantities == 0 .. MaxQuantity

\* an exception, as the value a call produced instead of returning
Raise(msg) == [raised |-> TRUE, exc |-> msg]
Return(v) == [raised |-> FALSE, value |-> v]

SeqToSet(s) == {s[i] : i \in DOMAIN s}

RECURSIVE SumQuantity(_)
\* func.coalesce(func.sum(quantity), 0) over a set of rows
SumQuantity(rows) ==
    IF rows = {} THEN 0
    ELSE LET r == CHOOSE x \in rows : TRUE IN r.quantity + SumQuantity(rows \ {r})

(***************************************************************************)
(* State.                                                                  *)
(***************************************************************************)
VARIABLES
    \* ---- vector store singleton (vector_store.py) ----
    _store,          \* Null, or [_index, _products]
    \* ---- database tables (database.py) ----
    cart_items,      \* set of CartItemRow
    row_seq,         \* last autoincrement id of cart_items
    conversations,   \* ids of the conversations table
    \* ---- tool layer (shopping_tools.py) ----
    _context,        \* the module-level _ToolContext
    \* ---- one process_message call per turn (agent.py) ----
    pc,              \* position of each turn
    ident,           \* the context as each turn set it (its arguments, its searches)
    tool_calls,      \* tool_calls of the last model message of each turn
    frame,           \* locals of the tool call in flight of each turn
    result,          \* last tool result of each turn
    hops,            \* model steps that requested a tool, per turn
    \* ---- history variables ----
    expected,        \* per (owner, product): quantity added since the row was last removed
    overlap,         \* per owner: "no" cart writes of that owner overlapped so far,
                     \* only "adds" did, or a removal did too ("mixed")
    used,            \* per turn: the context the last tool call read, and the turn's own
    fault,           \* per turn: the last tool call met an exception
    \* ---- one chat request (routes/chat.py) ----
    messages,        \* rows of the messages table, oldest first
    stream,          \* position of generate_response
    events,          \* what generate_response has yielded so far
    assistant_response,  \* the text collected from the token events
    \* ---- startup (main.py, vector_store.py) ----
    boot,            \* position of initialize_vector_store in the running process
    runs,            \* processes started so far
    FAISS_INDEX_PATH,    \* the file faiss_index.bin
    PRODUCTS_JSON_PATH,  \* the file products.json
    \* ---- one call of a function taken alone ----
    args,            \* the function and its arguments, Null before the call
    returned         \* what the call returned

\* the variables of the turns
turnVars == << cart_items, row_seq, conversations, _context, pc, ident,
               tool_calls, frame, result, hops, expected, overlap, used, fault >>
\* the variables of a chat request
streamVars == << messages, stream, events, assistant_response >>
\* the variables of startup
bootVars == << boot, runs, FAISS_INDEX_PATH, PRODUCTS_JSON_PATH >>

\* the variables of a call taken alone
callVars == << args, returned >>

vars == << _store, turnVars, streamVars, bootVars, callVars >>

(***************************************************************************)
(* Vector store: readiness and lookups.                                    *)
(***************************************************************************)
\* the embedding of a product's descriptive text
Embed(p) == << "vec", p.id, p.title, p.description, p.category >>

\* ProductVectorStore.is_ready
is_ready(store) == store._index # Null /\ Len(store._products) > 0

\* `store and store.is_ready` as the tools test it
StoreLive == _store # Null /\ is_ready(_store)

\* ProductVectorStore.get_product_by_id: first product with the id, or Null
get_product_by_id(store, product_id) ==
    LET hits == {i \in DOMAIN store._products : store._products[i].id = product_id}
    IN IF hits = {} THEN Null
       ELSE store._products[CHOOSE i \in hits : \A j \in hits : i <= j]

\* str.lower() on the characters of the model's alphabet
LowerChar(c) ==
    CASE c = "P" -> "p"
      [] c = "W" -> "w"
      [] c = "D" -> "d"
      [] c = "B" -> "b"
      [] c = "T" -> "t"
      [] c = "M" -> "m"
      [] c = "R" -> "r"
      [] OTHER -> c

LowerText(t) == [i \in DOMAIN t |-> LowerChar(t[i])]

\* str.lower() on a category name
LowerCategory(c) ==
    CASE c = "Electronics" -> "electronics"
      [] c = "MEN'S CLOTHING" -> "men's clothing"
      [] OTHER -> c

\* Python's `w in t` on texts: w occurs in t as a substring
Contains(w, t) ==
    \E i \in 0 .. (Len(t) - Len(w)) : SubSeq(t, i + 1, i + Len(w)) = w

\* the predicate `category and p.category.lower() != category.lower()` negated:
\* the product passes the category filter
CategoryMatches(p, category) ==
    category = None \/ LowerCategory(p.category) = LowerCategory(category)

\* `max_price is not None and p.price > max_price` negated; max_price is a
\* set holding the bound, empty for None
PriceMatches(p, max_price) == \A m \in max_price : p.price <= m

\* cosine similarity (in hundredths) of a query's embedding and a stored vector
Similarity(query, vec) ==
    CASE query = << "b", "a", "g" >> -> IF vec[2] = 1 THEN 62 ELSE 8
      [] query = << "u", "s", "b" >> -> IF vec[2] = 9 THEN 55 ELSE 12
      [] query = << "g", "i", "f", "t" >> ->
             IF vec[2] = 7 THEN 70 ELSE IF vec[2] \in {1, 2, 9} THEN 40 ELSE 9
      [] OTHER -> 5

RECURSIVE Ranked(_, _)
\* positions of S by descending score, ties in index order
Ranked(S, score) ==
    IF S = {} THEN << >>
    ELSE LET best == CHOOSE i \in S :
                        \A j \in S : score[i] > score[j] \/ (score[i] = score[j] /\ i <= j)
         IN << best >> \o Ranked(S \ {best}, score)

\* faiss IndexFlatIP.search(query_vec, k): k (score, idx) pairs, idx counted
\* from 0, padded with idx = -1 when the index holds fewer than k vectors
index_search(index, query, k) ==
    LET n == Len(index.vectors)
        score == [i \in 1 .. n |-> Similarity(query, index.vectors[i])]
        order == Ranked(1 .. n, score)
    IN [j \in 1 .. k |->
           IF j <= n THEN [score |-> score[order[j]], idx |-> order[j] - 1]
           ELSE [score |-> 0 - 1000, idx |-> 0 - 1]]

RECURSIVE search_walk(_, _, _, _, _, _, _, _)
\* the filter loop of ProductVectorStore.search from hit j on
search_walk(products, hits, j, results, top_k, category, max_price, min_score) ==
    IF j > Len(hits) THEN Return(results)
    ELSE LET h == hits[j]
         IN IF h.idx < 0 \/ h.score < min_score
            THEN search_walk(products, hits, j + 1, results, top_k, category, max_price, min_score)
            ELSE IF h.idx + 1 > Len(products)
            THEN Raise(<< "list index out of range" >>)
            ELSE LET product == products[h.idx + 1]
                 IN IF ~CategoryMatches(product, category) \/ ~PriceMatches(product, max_price)
                    THEN search_walk(products, hits, j + 1, results, top_k,
                                     category, max_price, min_score)
                    ELSE IF Len(results) + 1 >= top_k
                    THEN Return(Append(results, product))
                    ELSE search_walk(products, hits, j + 1, Append(results, product),
                                     top_k, category, max_price, min_score)

\* ProductVectorStore.search; emb is the embedding provider's mode
search(store, emb, query, top_k, category, max_price, min_score) ==
    IF ~is_ready(store) THEN Raise(<< "Vector store not initialized" >>)
    ELSE IF emb = "down" THEN Raise(<< "embedding request failed" >>)
    ELSE search_walk(store._products,
                     index_search(store._index, query, Len(store._products)),
                     1, << >>, top_k, category, max_price, min_score)

\* a browse that applies no filter
KeepMatching_unfiltered(products, category, max_price) == products

\* the products of a sequence that satisfy a predicate, in order
RECURSIVE KeepMatching(_, _, _)
KeepMatching(products, category, max_price) ==
    IF products = << >> THEN << >>
    ELSE LET rest == KeepMatching(Tail(products), category, max_price)
         IN IF CategoryMatches(Head(products), category) /\ PriceMatches(Head(products), max_price)
            THEN << Head(products) >> \o rest
            ELSE rest

\* ProductVectorStore.get_all_products
get_all_products(store, category, max_price) ==
    KeepMatching(store._products, category, max_price)

\* the category names in the order of Python's string comparison
CategoryOrder == << "electronics", "jewelery", "men's clothing", "women's clothing" >>

\* sorted(list(categories)) of a set of category names
sorted_categories(categories) == SelectSeq(CategoryOrder, LAMBDA c : c \in categories)

\* ProductVectorStore.get_all_categories: sorted distinct categories
get_all_categories(store) ==
    sorted_categories({store._products[i].category : i \in DOMAIN store._products})

(***************************************************************************)
(* Upstream catalog client (fakestore.py).  A request either succeeds or,  *)
(* after its retries, raises; the environment decides which.               *)
(***************************************************************************)
\* the ids of the Future that holds a failed attempt, as printed in hex and
\* cut to a few digits: one without and one with the digits 404
FutureIds == {<< "7", "f", "3", "c" >>, << "7", "f", "4", "0", "4", "c" >>}

\* what the upstream does during a call, and the id the Future of a failed
\* request gets
UpstreamModes == [upstream : {"up", "down"}, future_id : FutureIds]

\* what the upstream answers to one attempt: a status, or no answer
ReplyKinds == {"200", "404", "500", "network"}

\* stop_after_attempt(3)
MaxAttempts == 3

\* the body of _request: raise_for_status, and the two except clauses
attempt(reply) ==
    IF reply = "200" THEN Return(reply)
    ELSE IF reply = "network" THEN Raise(<< "Request error: " >>)
    ELSE Raise(<< "API error: " >> \o
               (IF reply = "404" THEN << "4", "0", "4" >> ELSE << "5", "0", "0" >>))

\* str() of the RetryError that tenacity raises after the last attempt: it
\* names the Future of the attempt, not the exception the attempt raised
RetryErrorText(future_id) ==
    << "RetryError[<Future at 0x" >> \o future_id
        \o << " state=finished raised Exception>]" >>

RECURSIVE _request_from(_, _, _)
\* the attempts from the i-th on: @retry has no `retry=` argument, so it
\* retries after every exception, and no `reraise`, so it ends in RetryError
_request_from(replies, i, future_id) ==
    LET outcome == attempt(replies[i])
    IN IF ~outcome.raised THEN [outcome |-> outcome, attempts |-> i]
       ELSE IF i >= MaxAttempts
       THEN [outcome |-> Raise(RetryErrorText(future_id)), attempts |-> i]
       ELSE _request_from(replies, i + 1, future_id)

\* FakeStoreClient._request under @retry: the outcome and the attempts made
_request(replies, future_id) == _request_from(replies, 1, future_id)

\* a request to an upstream that answers every attempt alike
request_under(net, reply) ==
    _request([i \in 1 .. MaxAttempts |-> IF net.upstream = "down" THEN "network" ELSE reply],
             net.future_id).outcome

\* FakeStoreClient.get_product_by_id under upstream mode `net`
client_get_product_by_id(net, product_id) ==
    LET hits == {i \in DOMAIN Catalog : Catalog[i].id = product_id}
        response == request_under(net, IF hits = {} THEN "404" ELSE "200")
    IN IF response.raised THEN response
       ELSE Return(Catalog[CHOOSE i \in hits : TRUE])

\* the test `"404" in error_msg or "not found" in error_msg.lower()`
IsNotFoundMessage(msg) ==
    \/ Contains(<< "4", "0", "4" >>, msg)
    \/ Contains(<< "n", "o", "t", " ", "f", "o", "u", "n", "d" >>, LowerText(msg))

\* FakeStoreClient.get_all_products
client_get_all_products(net) ==
    LET response == request_under(net, "200")
    IN IF response.raised THEN response ELSE Return(Catalog)

\* the lists the upstream may answer GET /products/categories with: in
\* sorted order, in another order, with a name twice
CategoryLists ==
    {CategoryOrder,
     << "men's clothing", "electronics", "jewelery", "women's clothing" >>,
     << "electronics", "electronics", "jewelery" >>}

\* FakeStoreClient.get_all_categories: response.json(), the list as the
\* upstream sent it
client_get_all_categories(net, listed) ==
    LET response == request_under(net, "200")
    IN IF response.raised THEN response ELSE Return(listed)

RECURSIVE Split(_)
\* str.split(): the maximal runs of non-blank characters
Split(t) ==
    IF t = << >> THEN << >>
    ELSE IF Head(t) = " " THEN Split(Tail(t))
    ELSE LET stop == IF \E i \in DOMAIN t : t[i] = " "
                     THEN CHOOSE i \in DOMAIN t :
                              t[i] = " " /\ \A j \in 1 .. (i - 1) : t[j] # " "
                     ELSE Len(t) + 1
         IN << SubSeq(t, 1, stop - 1) >> \o Split(SubSeq(t, stop, Len(t)))

RECURSIVE KeepWords(_, _)
\* the products whose title or description holds one of the words, in order
KeepWords(products, words) ==
    IF products = << >> THEN << >>
    ELSE LET p == Head(products)
             rest == KeepWords(Tail(products), words)
         IN IF \E i \in DOMAIN words :
                   Contains(words[i], LowerText(p.title))
                   \/ Contains(words[i], LowerText(p.description))
            THEN << p >> \o rest
            ELSE rest

\* the query words longer than 2 characters
LongWords(words) ==
    LET keep == {i \in DOMAIN words : Len(words[i]) > 2}
        RECURSIVE pick(_)
        pick(i) == IF i > Len(words) THEN << >>
                   ELSE IF i \in keep THEN << words[i] >> \o pick(i + 1)
                   ELSE pick(i + 1)
    IN pick(1)

\* FakeStoreClient.search_products: the keyword fallback
client_search_products(net, query, category, max_price) ==
    LET fetched == client_get_all_products(net)
    IN IF fetched.raised THEN fetched
       ELSE LET by_category == IF category # None
                               THEN KeepMatching(fetched.value, category, {})
                               ELSE fetched.value
                words == LongWords(Split(LowerText(query)))
                by_query == IF query # << >> /\ words # << >>
                            THEN KeepWords(by_category, words)
                            ELSE by_category
            IN Return(KeepMatching(by_query, None, max_price))

(***************************************************************************)
(* Cart persistence helpers (database.py).                                 *)
(***************************************************************************)
\* _cart_owner_filter: the WHERE clause selecting the owner's rows
_cart_owner_filter(user_id, conversation_id, row) ==
    IF user_id # None
    THEN row.user_id = user_id
    ELSE row.conversation_id = conversation_id

\* rows of the owner named by the keyword arguments kw
OwnerRows(rows, kw) ==
    {r \in rows : _cart_owner_filter(kw.user_id, kw.conversation_id, r)}

\* get_cart_items
get_cart_items(rows, kw) == OwnerRows(rows, kw)

\* a total over the whole table, without the owner's WHERE clause
get_cart_total_items_any_owner(rows, kw) == SumQuantity(rows)

\* get_cart_total_items
get_cart_total_items(rows, kw) == SumQuantity(OwnerRows(rows, kw))

\* the SELECT of add_cart_item with scalar_one_or_none(): the row, Null, or
\* MultipleResultsFound when several rows match
select_cart_row(rows, kw, product_id) ==
    LET hits == {r \in OwnerRows(rows, kw) : r.product_id = product_id}
    IN IF hits = {} THEN Return(Null)
       ELSE IF Cardinality(hits) = 1 THEN Return(CHOOSE r \in hits : TRUE)
       ELSE Raise(<< "Multiple rows were found when one or none was required" >>)

\* add_cart_item with `row.quantity = quantity` for `row.quantity += quantity`
upsert_cart_row_overwrite(row, kw, product_id, quantity) ==
    IF row # Null
    THEN [op |-> "update", id |-> row.id, quantity |-> quantity]
    ELSE [op |-> "insert", id |-> 0, quantity |-> quantity]

\* the in-memory half of add_cart_item: the write the session will flush
upsert_cart_row(row, kw, product_id, quantity) ==
    IF row # Null
    THEN [op |-> "update", id |-> row.id, quantity |-> row.quantity + quantity]
    ELSE [op |-> "insert", id |-> 0, quantity |-> quantity]

\* a flush that stores a new row in two writes and ends after the first: the
\* row is there, its quantity is not
flush_cart_row_torn(rows, seq, write, kw, product_id) ==
    IF write.op = "update"
    THEN IF \E r \in rows : r.id = write.id
         THEN Return([rows |-> {IF r.id = write.id
                                THEN [r EXCEPT !.quantity = write.quantity]
                                ELSE r : r \in rows},
                      seq |-> seq,
                      quantity |-> write.quantity])
         ELSE Raise(<< "UPDATE statement expected to update 1 row(s); 0 were matched" >>)
    ELSE Return([rows |-> rows \cup {[id |-> seq + 1,
                                      user_id |-> kw.user_id,
                                      conversation_id |->
                                          IF kw.user_id = None THEN kw.conversation_id ELSE None,
                                      product_id |-> product_id,
                                      quantity |-> 0]},
                 seq |-> seq + 1,
                 quantity |-> write.quantity])

\* session.flush() of that write against the table as it is now
flush_cart_row(rows, seq, write, kw, product_id) ==
    IF write.op = "update"
    THEN IF \E r \in rows : r.id = write.id
         THEN Return([rows |-> {IF r.id = write.id
                                THEN [r EXCEPT !.quantity = write.quantity]
                                ELSE r : r \in rows},
                      seq |-> seq,
                      quantity |-> write.quantity])
         ELSE Raise(<< "UPDATE statement on table 'cart_items' expected to update 1 row(s); 0 were matched" >>)
    ELSE Return([rows |-> rows \cup {[id |-> seq + 1,
                                      user_id |-> kw.user_id,
                                      conversation_id |->
                                          IF kw.user_id = None THEN kw.conversation_id ELSE None,
                                      product_id |-> product_id,
                                      quantity |-> write.quantity]},
                 seq |-> seq + 1,
                 quantity |-> write.quantity])

\* a DELETE without the owner in its WHERE clause
remove_cart_item_any_owner(rows, kw, product_id) ==
    LET gone == {r \in rows : r.product_id = product_id}
    IN [rows |-> rows \ gone, removed |-> gone # {}]

\* remove_cart_item: the DELETE, and whether it removed a row
remove_cart_item(rows, kw, product_id) ==
    LET gone == {r \in OwnerRows(rows, kw) : r.product_id = product_id}
    IN [rows |-> rows \ gone, removed |-> gone # {}]

(***************************************************************************)
(* Tool layer (shopping_tools.py): context and owner resolution.           *)
(***************************************************************************)
\* _cart_kwargs that always keys the cart by the conversation
_cart_kwargs_conversation_only(ctx) ==
    [user_id |-> None, conversation_id |-> ctx.conversation_id]

\* _cart_kwargs: the owner keyword arguments read from the context
_cart_kwargs(ctx) ==
    IF ctx.user_id # None
    THEN [user_id |-> ctx.user_id, conversation_id |-> None]
    ELSE [user_id |-> None, conversation_id |-> ctx.conversation_id]

\* the tools' `except Exception` clause: a raised exception becomes an
\* {error: message} payload, a returned payload is passed through
ErrorPayload(tool, msg) == [tool |-> tool, kind |-> "error", error |-> msg]

\* a tool without its `except Exception` clause: the exception escapes
ToolReturn_uncaught(tool, prefix, outcome) ==
    IF outcome.raised
    THEN [tool |-> tool, kind |-> "raised", exc |-> outcome.exc]
    ELSE outcome.value

ToolReturn(tool, prefix, outcome) ==
    IF outcome.raised
    THEN ErrorPayload(tool, << prefix, outcome.exc >>)
    ELSE outcome.value

(***************************************************************************)
(* Tool layer: the six tools.  net, emb and db are the modes of the        *)
(* upstream API, the embedding provider and the database during the call.  *)
(***************************************************************************)
\* result cap of search_products (products[:10], top_k=10)
ResultCap == 10
\* default min_score of ProductVectorStore.search, in hundredths
MinScore == 10

\* the products search_products looks up, or the exception raised on the way
search_products_found(store, net, emb, query, category, max_price) ==
    IF store # Null /\ is_ready(store)
    THEN IF query # << >>
         THEN search(store, emb, query, ResultCap, category, max_price, MinScore)
         ELSE Return(get_all_products(store, category, max_price))
    ELSE client_search_products(net, query, category, max_price)

\* one abbreviated product of a search result
Abbreviated(p) ==
    [id |-> p.id, title |-> p.title, price |-> p.price, category |-> p.category,
     rating |-> << p.rating.rate, p.rating.count >>]

\* the try block of search_products listing every product found
search_products_body_uncapped(found) ==
    IF found.raised THEN found
    ELSE IF found.value = << >>
    THEN Return([tool |-> "search_products", kind |-> "no_results"])
    ELSE Return([tool |-> "search_products", kind |-> "products",
                 count |-> Len(found.value),
                 products |-> [i \in DOMAIN found.value |-> Abbreviated(found.value[i])]])

\* the try block of search_products
search_products_body(found) ==
    IF found.raised THEN found
    ELSE LET top == SubSeq(found.value, 1,
                           IF Len(found.value) < ResultCap THEN Len(found.value) ELSE ResultCap)
         IN IF top = << >>
            THEN Return([tool |-> "search_products", kind |-> "no_results"])
            ELSE Return([tool |-> "search_products", kind |-> "products",
                         count |-> Len(top),
                         products |-> [i \in DOMAIN top |-> Abbreviated(top[i])]])

\* search_products, as the control loop sees it
search_products(store, net, emb, query, category, max_price) ==
    ToolReturn("search_products", "Failed to search products",
               search_products_body(
                   search_products_found(store, net, emb, query, category, max_price)))

\* a search_products that leaves the ids alone when it finds nothing
last_search_ids_after_kept(ids, payload) ==
    CASE payload.kind = "products" ->
             {payload.products[i].id : i \in DOMAIN payload.products}
      [] OTHER -> ids

\* _context.last_search_ids after search_products returned payload
last_search_ids_after(ids, payload) ==
    CASE payload.kind = "products" ->
             {payload.products[i].id : i \in DOMAIN payload.products}
      [] payload.kind = "no_results" -> {}
      [] OTHER -> ids

\* the try block of get_categories
get_categories_body(store, net, listed) ==
    IF store # Null /\ is_ready(store)
    THEN Return([tool |-> "get_categories", kind |-> "categories",
                 categories |-> get_all_categories(store)])
    ELSE LET fetched == client_get_all_categories(net, listed)
         IN IF fetched.raised THEN fetched
            ELSE Return([tool |-> "get_categories", kind |-> "categories",
                         categories |-> fetched.value])

\* get_categories, as the control loop sees it
get_categories(store, net, listed) ==
    ToolReturn("get_categories", "Failed to get categories",
               get_categories_body(store, net, listed))

\* the full product payload of get_product_details
Detailed(p) ==
    [tool |-> "get_product_details", kind |-> "product", id |-> p.id, title |-> p.title,
     price |-> p.price, description |-> p.description, category |-> p.category,
     rating |-> p.rating]

\* the try block of get_product_details
get_product_details_body(store, net, product_id) ==
    IF store # Null /\ is_ready(store)
    THEN LET product == get_product_by_id(store, product_id)
         IN IF product = Null
            THEN Return(ErrorPayload("get_product_details", << "not found, use a search id" >>))
            ELSE Return(Detailed(product))
    ELSE LET fetched == client_get_product_by_id(net, product_id)
         IN IF fetched.raised THEN fetched ELSE Return(Detailed(fetched.value))

\* get_product_details without its except clause: the exception escapes
get_product_details_uncaught(store, net, product_id) ==
    LET outcome == get_product_details_body(store, net, product_id)
    IN IF ~outcome.raised THEN outcome.value
       ELSE [tool |-> "get_product_details", kind |-> "raised", exc |-> outcome.exc]

\* get_product_details with its except clause
get_product_details(store, net, product_id) ==
    LET outcome == get_product_details_body(store, net, product_id)
    IN IF ~outcome.raised THEN outcome.value
       ELSE IF IsNotFoundMessage(outcome.exc)
       THEN ErrorPayload("get_product_details", << "not found" >>)
       ELSE ErrorPayload("get_product_details",
                         << "Failed to get product details", outcome.exc >>)

\* the condition of get_product_details' warning: a search left ids and the
\* product is not one of them
provenance_warning(ids, product_id) == ids # {} /\ product_id \notin ids

\* a get_product_details that refuses a product the last search did not return
get_product_details_in_blocking(ctx, store, net, product_id) ==
    [warned |-> provenance_warning(ctx.last_search_ids, product_id),
     payload |-> IF provenance_warning(ctx.last_search_ids, product_id)
                 THEN ErrorPayload("get_product_details", << "not found, use a search id" >>)
                 ELSE get_product_details(store, net, product_id),
     ctx |-> ctx]

\* get_product_details in context ctx: whether it logged the warning, the
\* payload it returned, and the context it left
get_product_details_in(ctx, store, net, product_id) ==
    [warned |-> provenance_warning(ctx.last_search_ids, product_id),
     payload |-> get_product_details(store, net, product_id),
     ctx |-> ctx]

\* the product lookup the cart tools make: the product, Null, or a raise
lookup_product(store, net, product_id) ==
    IF store # Null /\ is_ready(store)
    THEN Return(get_product_by_id(store, product_id))
    ELSE client_get_product_by_id(net, product_id)

RECURSIVE RowsInOrder(_)
\* the rows of a SELECT in rowid order
RowsInOrder(rows) ==
    IF rows = {} THEN << >>
    ELSE LET first == CHOOSE r \in rows : \A q \in rows : r.id <= q.id
         IN << first >> \o RowsInOrder(rows \ {first})

\* _db_get_cart: the (product_id, quantity) pairs of the owner in the context
_db_get_cart(rows, ctx, db) ==
    IF db = "down" THEN Raise(<< "database is locked" >>)
    ELSE LET mine == RowsInOrder(get_cart_items(rows, _cart_kwargs(ctx)))
         IN Return([i \in DOMAIN mine |->
                       [product_id |-> mine[i].product_id, quantity |-> mine[i].quantity]])

\* round(x, 2) of an amount in thousandths: the nearest hundredth, a half
\* going to the even hundredth
Round2(x) ==
    LET r == x % 10
    IN IF r > 5 \/ (r = 5 /\ (x \div 10) % 2 = 1) THEN x - r + 10 ELSE x - r

RECURSIVE cart_lines(_, _, _, _)
\* the loop of get_cart over the pairs from position i on: the listed lines
cart_lines(pairs, i, store, net) ==
    IF i > Len(pairs) THEN Return(<< >>)
    ELSE LET found == lookup_product(store, net, pairs[i].product_id)
             rest == cart_lines(pairs, i + 1, store, net)
         IN IF found.raised THEN found
            ELSE IF rest.raised THEN rest
            ELSE IF found.value = Null THEN rest
            ELSE Return(<< [product_id |-> pairs[i].product_id,
                            price |-> found.value.price,
                            quantity |-> pairs[i].quantity,
                            subtotal |-> Round2(found.value.price * pairs[i].quantity)] >>
                        \o rest.value)

RECURSIVE SumSubtotals(_)
\* `total += subtotal` over the lines: the sum of the unrounded subtotals
SumSubtotals(lines) ==
    IF lines = << >> THEN 0
    ELSE Head(lines).price * Head(lines).quantity + SumSubtotals(Tail(lines))

\* the try block of get_cart
get_cart_body(rows, ctx, store, net, db) ==
    LET pairs == _db_get_cart(rows, ctx, db)
    IN IF pairs.raised THEN pairs
       ELSE IF pairs.value = << >>
       THEN Return([tool |-> "get_cart", kind |-> "cart_empty", items |-> << >>, total |-> 0])
       ELSE LET lines == cart_lines(pairs.value, 1, store, net)
            IN IF lines.raised THEN lines
               ELSE Return([tool |-> "get_cart", kind |-> "cart", items |-> lines.value,
                            total |-> Round2(SumSubtotals(lines.value)),
                            item_count |-> Len(lines.value)])

\* get_cart, as the control loop sees it
get_cart(rows, ctx, store, net, db) ==
    ToolReturn("get_cart", "Failed to get cart", get_cart_body(rows, ctx, store, net, db))

(***************************************************************************)
(* Turns.  A turn is one process_message call: it sets the tool context,   *)
(* then alternates model steps and tool steps.  Tools run on worker        *)
(* threads (run_async), so the steps of different turns interleave, and    *)
(* add_to_cart and remove_from_cart take several steps each.               *)
(***************************************************************************)
Modes == {"up", "down"}

\* the tool calls a model message may request
SearchRequests ==
    { [name |-> "search_products", query |-> << "b", "a", "g" >>, category |-> None,
       max_price |-> {}],
      [name |-> "search_products", query |-> << >>, category |-> "Electronics",
       max_price |-> {70000}],
      [name |-> "search_products", query |-> << "o", "f" >>, category |-> "jewelery",
       max_price |-> {}] }

\* the cart tool calls with arguments the tools accept
CartRequests ==
    {[name |-> "get_cart"]}
    \cup {[name |-> "add_to_cart", product_id |-> i, quantity |-> q] :
              i \in {1, 9}, q \in {1, MaxQuantity}}
    \cup {[name |-> "remove_from_cart", product_id |-> i] : i \in {1, 9}}

Requests ==
    SearchRequests
    \cup {[name |-> "get_categories"], [name |-> "get_cart"]}
    \cup {[name |-> "get_product_details", product_id |-> i] : i \in ProductIds}
    \cup {[name |-> "add_to_cart", product_id |-> i, quantity |-> q] :
              i \in ProductIds, q \in Quantities}
    \cup {[name |-> "remove_from_cart", product_id |-> i] : i \in ProductIds}

\* the owners a cart row can have, as keyword arguments
Owners ==
    {[user_id |-> u, conversation_id |-> None] : u \in UserIds}
    \cup {[user_id |-> None, conversation_id |-> c] : c \in ConversationIds}

\* the conversation of each turn: the two turns are of different conversations
TurnConversations(t) == IF t = "t1" THEN {"c1"} ELSE {"c2"}

\* tool-requesting model steps taken so far
TotalHops == hops["t1"] + hops["t2"]

\* the first pending tool call of turn t
Call(t) == Head(tool_calls[t])

\* turn t is between the SELECT and the commit of an add_to_cart
InAdd(t) == pc[t] \in {"add_upsert", "add_flush"}

\* what a tool call of turn t reads from the context, next to what the turn set
Snapshot(t) == [read |-> _context, own |-> ident[t]]

\* the tool step ends: back to the model step when no tool call is pending
Finish(t, payload) ==
    /\ result' = [result EXCEPT ![t] = payload]
    /\ tool_calls' = [tool_calls EXCEPT ![t] = Tail(@)]
    /\ pc' = [pc EXCEPT ![t] = IF Len(tool_calls[t]) > 1 THEN "tools" ELSE "agent"]
    /\ frame' = [frame EXCEPT ![t] = Null]

\* once startup is over: chat_endpoint creates the conversation,
\* process_message sets the context
StartTurn(t) ==
    /\ boot = "serving"
    /\ pc[t] = "idle"
    /\ \E c \in TurnConversations(t), u \in UserIds \cup {None} :
          /\ conversations' = conversations \cup {c}
          /\ _context' = [conversation_id |-> c, user_id |-> u, last_search_ids |-> {}]
          /\ ident' = [ident EXCEPT ![t] =
                           [conversation_id |-> c, user_id |-> u, last_search_ids |-> {}]]
    /\ pc' = [pc EXCEPT ![t] = "agent"]
    /\ UNCHANGED << _store, cart_items, row_seq, tool_calls, frame, result, hops,
                    expected, overlap, used, fault >>
    /\ UNCHANGED << streamVars, bootVars, callVars >>

\* a router that ends the turn whatever the last message carries
_should_continue_end(calls) == "end"

\* _should_continue: route on the last message's tool calls
_should_continue(calls) == IF calls # << >> THEN "continue" ELSE "end"

\* an agent node with the single edge to END
AfterAgent_end(calls) == "end"

\* the edges of the graph out of the agent node
AfterAgent(calls) == IF _should_continue(calls) = "continue" THEN "tools" ELSE "end"

\* _agent_node: the model reads the tool results and answers with text or
\* with a tool call request out of reqs
AgentStep(t, reqs) ==
    /\ pc[t] = "agent"
    /\ \E calls \in {<< >>} \cup {<< r >> : r \in reqs} :
          /\ calls # << >> => hops[t] < MaxHops /\ TotalHops < MaxCalls
          /\ tool_calls' = [tool_calls EXCEPT ![t] = calls]
          /\ hops' = [hops EXCEPT ![t] = IF calls # << >> THEN @ + 1 ELSE @]
          /\ pc' = [pc EXCEPT ![t] = AfterAgent(calls)]
    /\ result' = [result EXCEPT ![t] = Null]
    /\ used' = [used EXCEPT ![t] = Null]
    /\ fault' = [fault EXCEPT ![t] = FALSE]
    /\ UNCHANGED << _store, cart_items, row_seq, conversations, _context, ident, frame,
                    expected, overlap >>
    /\ UNCHANGED << streamVars, bootVars, callVars >>

\* the model call raises: process_message answers with its apology and ends
AgentFails(t) ==
    /\ pc[t] = "agent"
    /\ pc' = [pc EXCEPT ![t] = "failed"]
    /\ UNCHANGED << _store, cart_items, row_seq, conversations, _context, ident,
                    tool_calls, frame, result, hops, expected, overlap, used, fault >>
    /\ UNCHANGED << streamVars, bootVars, callVars >>

\* search_products
SearchProducts(t) ==
    /\ pc[t] = "tools" /\ Call(t).name = "search_products"
    /\ \E net \in UpstreamModes, emb \in Modes :
          LET found == search_products_found(_store, net, emb, Call(t).query,
                                             Call(t).category, Call(t).max_price)
              payload == search_products(_store, net, emb, Call(t).query,
                                         Call(t).category, Call(t).max_price)
          IN /\ _context' = [_context EXCEPT !.last_search_ids =
                                 last_search_ids_after(@, payload)]
             /\ ident' = [ident EXCEPT ![t].last_search_ids =
                              last_search_ids_after(@, payload)]
             /\ fault' = [fault EXCEPT ![t] = search_products_body(found).raised]
             /\ Finish(t, payload)
    /\ used' = [used EXCEPT ![t] = Snapshot(t)]
    /\ UNCHANGED << _store, cart_items, row_seq, conversations, hops, expected, overlap >>
    /\ UNCHANGED << streamVars, bootVars, callVars >>

\* get_categories
GetCategories(t) ==
    /\ pc[t] = "tools" /\ Call(t).name = "get_categories"
    /\ \E net \in UpstreamModes, listed \in CategoryLists :
          /\ fault' = [fault EXCEPT ![t] = get_categories_body(_store, net, listed).raised]
          /\ Finish(t, get_categories(_store, net, listed))
    /\ UNCHANGED << _store, cart_items, row_seq, conversations, _context, ident, hops,
                    expected, overlap, used >>
    /\ UNCHANGED << streamVars, bootVars, callVars >>

\* get_product_details
GetProductDetails(t) ==
    /\ pc[t] = "tools" /\ Call(t).name = "get_product_details"
    /\ \E net \in UpstreamModes :
          /\ fault' = [fault EXCEPT ![t] =
                           get_product_details_body(_store, net, Call(t).product_id).raised]
          /\ Finish(t, get_product_details(_store, net, Call(t).product_id))
    /\ used' = [used EXCEPT ![t] = Snapshot(t)]
    /\ UNCHANGED << _store, cart_items, row_seq, conversations, _context, ident, hops,
                    expected, overlap >>
    /\ UNCHANGED << streamVars, bootVars, callVars >>

\* get_cart
GetCart(t) ==
    /\ pc[t] = "tools" /\ Call(t).name = "get_cart"
    /\ \E net \in UpstreamModes, db \in Modes :
          /\ fault' = [fault EXCEPT ![t] =
                           get_cart_body(cart_items, _context, _store, net, db).raised]
          /\ Finish(t, get_cart(cart_items, _context, _store, net, db))
    /\ used' = [used EXCEPT ![t] = Snapshot(t)]
    /\ UNCHANGED << _store, cart_items, row_seq, conversations, _context, ident, hops,
                    expected, overlap >>
    /\ UNCHANGED << streamVars, bootVars, callVars >>

\* the checks of add_to_cart without the one on the quantity
add_to_cart_check_any_quantity(store, net, product_id, quantity) ==
    LET found == lookup_product(store, net, product_id)
    IN IF found.raised
       THEN IF IsNotFoundMessage(found.exc)
            THEN [go |-> FALSE,
                  out |-> Return(ErrorPayload("add_to_cart", << "not found" >>))]
            ELSE [go |-> FALSE, out |-> found]
       ELSE IF found.value = Null
       THEN [go |-> FALSE, out |-> Return(ErrorPayload("add_to_cart", << "not found" >>))]
       ELSE [go |-> TRUE, out |-> found]

\* the checks of add_to_cart before it touches the database: the product to
\* add, or the payload or exception that ends the call
add_to_cart_check(store, net, product_id, quantity) ==
    IF quantity < 1
    THEN [go |-> FALSE,
          out |-> Return(ErrorPayload("add_to_cart", << "Quantity must be at least 1." >>))]
    ELSE LET found == lookup_product(store, net, product_id)
         IN IF found.raised
            THEN IF IsNotFoundMessage(found.exc)
                 THEN [go |-> FALSE,
                       out |-> Return(ErrorPayload("add_to_cart", << "not found" >>))]
                 ELSE [go |-> FALSE, out |-> found]
            ELSE IF found.value = Null
            THEN [go |-> FALSE, out |-> Return(ErrorPayload("add_to_cart", << "not found" >>))]
            ELSE [go |-> TRUE, out |-> found]

\* no other turn is inside an add_to_cart of the same owner
Alone(t, kw) == \A o \in Turns \ {t} : ~(InAdd(o) /\ frame[o].kw = kw)

\* add_to_cart up to the SELECT of add_cart_item
AddToCartSelect(t) ==
    /\ pc[t] = "tools" /\ Call(t).name = "add_to_cart"
    /\ \E net \in UpstreamModes, db \in Modes :
          LET check == add_to_cart_check(_store, net, Call(t).product_id, Call(t).quantity)
              kw == _cart_kwargs(_context)
              row == IF db = "down" THEN Raise(<< "database is locked" >>)
                     ELSE select_cart_row(cart_items, kw, Call(t).product_id)
          IN IF ~check.go
             THEN /\ Finish(t, ToolReturn("add_to_cart", "Failed to add to cart", check.out))
                  /\ fault' = [fault EXCEPT ![t] =
                                   /\ Call(t).quantity >= 1
                                   /\ lookup_product(_store, net, Call(t).product_id).raised]
                  /\ UNCHANGED << conversations, overlap, used >>
             ELSE /\ used' = [used EXCEPT ![t] = Snapshot(t)]
                  /\ IF row.raised
                     THEN /\ Finish(t, ToolReturn("add_to_cart", "Failed to add to cart", row))
                          /\ fault' = [fault EXCEPT ![t] = TRUE]
                          /\ UNCHANGED << conversations, overlap >>
                     ELSE /\ frame' = [frame EXCEPT ![t] =
                                           [kw |-> kw, product |-> check.out.value,
                                            row |-> row.value, write |-> Null]]
                          /\ pc' = [pc EXCEPT ![t] = "add_upsert"]
                          /\ conversations' =
                                 IF kw.conversation_id # None
                                 THEN conversations \cup {kw.conversation_id}
                                 ELSE conversations
                          /\ overlap' = [overlap EXCEPT ![kw] =
                                             IF Alone(t, kw) THEN @
                                             ELSE IF @ = "mixed" THEN "mixed" ELSE "adds"]
                          /\ UNCHANGED << tool_calls, result, fault >>
    /\ UNCHANGED << _store, cart_items, row_seq, _context, ident, hops, expected >>
    /\ UNCHANGED << streamVars, bootVars, callVars >>

\* add_cart_item changes the loaded row, or makes a new one, in the session
AddToCartUpsert(t) ==
    /\ pc[t] = "add_upsert"
    /\ frame' = [frame EXCEPT ![t].write =
                     upsert_cart_row(frame[t].row, frame[t].kw, Call(t).product_id,
                                     Call(t).quantity)]
    /\ pc' = [pc EXCEPT ![t] = "add_flush"]
    /\ UNCHANGED << _store, cart_items, row_seq, conversations, _context, ident,
                    tool_calls, result, hops, expected, overlap, used, fault >>
    /\ UNCHANGED << streamVars, bootVars, callVars >>

\* the payload of a successful add_to_cart
Added(product_id, quantity_in_cart, total_items) ==
    [tool |-> "add_to_cart", kind |-> "added", product_id |-> product_id,
     quantity_in_cart |-> quantity_in_cart, total_items |-> total_items]

\* flush, get_cart_total_items and commit of _db_add_to_cart; a failure
\* rolls the transaction back
AddToCartFlush(t) ==
    /\ pc[t] = "add_flush"
    /\ \E db \in Modes :
          LET kw == frame[t].kw
              out == IF db = "down" THEN Raise(<< "database is locked" >>)
                     ELSE flush_cart_row(cart_items, row_seq, frame[t].write, kw,
                                         Call(t).product_id)
          IN IF out.raised
             THEN /\ Finish(t, ToolReturn("add_to_cart", "Failed to add to cart", out))
                  /\ fault' = [fault EXCEPT ![t] = TRUE]
                  /\ UNCHANGED << cart_items, row_seq, expected >>
             ELSE /\ cart_items' = out.value.rows
                  /\ row_seq' = out.value.seq
                  /\ expected' = [expected EXCEPT ![<< kw, Call(t).product_id >>] =
                                      @ + Call(t).quantity]
                  /\ fault' = [fault EXCEPT ![t] = FALSE]
                  /\ Finish(t, Added(Call(t).product_id, out.value.quantity,
                                     get_cart_total_items(out.value.rows, kw)))
    /\ UNCHANGED << _store, conversations, _context, ident, hops, overlap, used >>
    /\ UNCHANGED << streamVars, bootVars, callVars >>

\* remove_from_cart up to the commit of its DELETE
RemoveFromCartDelete(t) ==
    /\ pc[t] = "tools" /\ Call(t).name = "remove_from_cart"
    /\ \E db \in Modes :
          LET kw == _cart_kwargs(_context)
              gone == remove_cart_item(cart_items, kw, Call(t).product_id)
          IN IF db = "down"
             THEN /\ Finish(t, ToolReturn("remove_from_cart", "Failed to remove from cart",
                                          Raise(<< "database is locked" >>)))
                  /\ fault' = [fault EXCEPT ![t] = TRUE]
                  /\ UNCHANGED << cart_items, expected, overlap >>
             ELSE /\ cart_items' = gone.rows
                  /\ overlap' = [overlap EXCEPT ![kw] = IF Alone(t, kw) THEN @ ELSE "mixed"]
                  /\ IF ~gone.removed
                     THEN /\ Finish(t, ErrorPayload("remove_from_cart", << "not in your cart" >>))
                          /\ fault' = [fault EXCEPT ![t] = FALSE]
                          /\ UNCHANGED expected
                     ELSE /\ expected' = [expected EXCEPT ![<< kw, Call(t).product_id >>] = 0]
                          /\ pc' = [pc EXCEPT ![t] = "rm_finish"]
                          /\ frame' = [frame EXCEPT ![t] = [kw |-> kw]]
                          /\ UNCHANGED << tool_calls, result, fault >>
    /\ used' = [used EXCEPT ![t] = Snapshot(t)]
    /\ UNCHANGED << _store, row_seq, conversations, _context, ident, hops >>
    /\ UNCHANGED << streamVars, bootVars, callVars >>

\* the rest of remove_from_cart's try block once the row is deleted
remove_from_cart_rest(rows, ctx, store, net, db, product_id) ==
    LET found == lookup_product(store, net, product_id)
        remaining == _db_get_cart(rows, ctx, db)
    IN IF found.raised THEN found
       ELSE IF found.value = Null
       THEN Return(ErrorPayload("remove_from_cart", << "not found" >>))
       ELSE IF remaining.raised THEN remaining
       ELSE IF remaining.value = << >>
       THEN Return([tool |-> "remove_from_cart", kind |-> "removed_empty"])
       ELSE Return([tool |-> "remove_from_cart", kind |-> "removed",
                    remaining_items |-> Len(remaining.value)])

\* remove_from_cart after the DELETE: the product lookup and the recount
RemoveFromCartFinish(t) ==
    /\ pc[t] = "rm_finish"
    /\ \E net \in UpstreamModes, db \in Modes :
          LET rest == remove_from_cart_rest(cart_items, _context, _store, net, db,
                                            Call(t).product_id)
          IN /\ Finish(t, ToolReturn("remove_from_cart", "Failed to remove from cart", rest))
             /\ fault' = [fault EXCEPT ![t] = rest.raised]
    /\ used' = [used EXCEPT ![t] = Snapshot(t)]
    /\ UNCHANGED << _store, cart_items, row_seq, conversations, _context, ident, hops,
                    expected, overlap >>
    /\ UNCHANGED << streamVars, bootVars, callVars >>

(***************************************************************************)
(* The chat route: one request and its response stream.                    *)
(***************************************************************************)
\* the end-of-turn marker
DONE == "[DONE]"

\* the kinds of event process_message yields
ChunkTypes == {"token", "tool_start", "products", "product_detail", "cart"}

\* a collector that takes every event for text
collect_all(text, chunk) == Append(text, chunk)

\* generate_response collects the text of the token events
collect(text, chunk) == IF chunk = "token" THEN Append(text, chunk) ELSE text

\* the except branch of generate_response, no marker sent
on_exception_unmarked(sent) == Append(sent, "token")

\* the except branch of generate_response: an error token, then the marker
on_exception(sent) == sent \o << "token", DONE >>

\* the end of generate_response's try block: the marker
on_exhausted(sent) == Append(sent, DONE)

\* chat_endpoint up to the StreamingResponse: the conversation row, the
\* history, the user message
ChatEndpoint ==
    /\ boot = "serving"
    /\ stream.at = "idle"
    /\ \E c \in ConversationIds, db \in Modes :
          IF db = "down"
          THEN /\ stream' = [stream EXCEPT !.at = "rejected"]
               /\ UNCHANGED << conversations, messages >>
          ELSE /\ conversations' = conversations \cup {c}
               /\ messages' = Append(messages, [conversation_id |-> c, role |-> "user",
                                               content |-> << "message" >>])
               /\ stream' = [at |-> "streaming", conversation_id |-> c]
    /\ UNCHANGED << events, assistant_response >>
    /\ UNCHANGED << _store, cart_items, row_seq, _context, pc, ident, tool_calls, frame,
                    result, hops, expected, overlap, used, fault, bootVars >>
    /\ UNCHANGED callVars

\* one chunk of process_message goes out
StreamChunk ==
    /\ stream.at = "streaming"
    /\ Len(events) < MaxEvents
    /\ \E chunk \in ChunkTypes :
          /\ assistant_response' = collect(assistant_response, chunk)
          /\ events' = Append(events, chunk)
    /\ UNCHANGED << _store, turnVars, messages, stream, bootVars >>
    /\ UNCHANGED callVars

\* process_message raises while it is iterated
StreamRaises ==
    /\ stream.at = "streaming"
    /\ events' = on_exception(events)
    /\ stream' = [stream EXCEPT !.at = "closed"]
    /\ UNCHANGED << _store, turnVars, messages, assistant_response, bootVars >>
    /\ UNCHANGED callVars

\* process_message is exhausted: the assistant message is persisted, which
\* may raise, and the marker goes out
StreamEnds ==
    /\ stream.at = "streaming"
    /\ \E db \in Modes :
          IF assistant_response # << >> /\ db = "down"
          THEN /\ events' = on_exception(events)
               /\ UNCHANGED messages
          ELSE /\ events' = on_exhausted(events)
               /\ messages' =
                      IF assistant_response # << >>
                      THEN Append(messages, [conversation_id |-> stream.conversation_id,
                                             role |-> "assistant",
                                             content |-> assistant_response])
                      ELSE messages
    /\ stream' = [stream EXCEPT !.at = "closed"]
    /\ UNCHANGED << _store, turnVars, assistant_response, bootVars >>
    /\ UNCHANGED callVars

\* the client goes away: the generator is closed where it stands
ClientDisconnects ==
    /\ stream.at = "streaming"
    /\ stream' = [stream EXCEPT !.at = "aborted"]
    /\ UNCHANGED << _store, turnVars, messages, events, assistant_response, bootVars >>
    /\ UNCHANGED callVars

(***************************************************************************)
(* Startup: initialize_vector_store and the two files of the data          *)
(* directory, over several runs of the process.                            *)
(***************************************************************************)
\* a file: absent, cut short by a failed write, or written in full
File(state, data) == [state |-> state, data |-> data]
Absent == File("absent", Null)
Partial == File("partial", Null)
Full(data) == File("full", data)

\* what the upstream API may serve at startup: the catalog, the catalog in
\* another order, the catalog less a product
Catalogs == {Catalog, << Catalog[2], Catalog[1] >>, << Catalog[2] >>}

\* ProductVectorStore()
NewStore == [_index |-> Null, _products |-> << >>]

\* the index over the embeddings of the products
BuildIndex(products) == [vectors |-> [i \in DOMAIN products |-> Embed(products[i])]]

\* a store built from the catalog
BuiltStore(products) == [_index |-> BuildIndex(products), _products |-> products]

\* _load_from_disk: whether it succeeded, and the store it leaves
_load_from_disk(store, index_file, products_file) ==
    IF index_file.state = "absent" \/ products_file.state = "absent"
    THEN [ok |-> FALSE, store |-> store]
    ELSE IF index_file.state # "full"
    THEN [ok |-> FALSE, store |-> store]
    ELSE LET loaded == [store EXCEPT !._index = index_file.data]
         IN IF products_file.state # "full"
            THEN [ok |-> FALSE, store |-> loaded]
            ELSE [ok |-> TRUE, store |-> [loaded EXCEPT !._products = products_file.data]]

\* an except branch of initialize_vector_store that keeps the store
init_failed_keeps_store(store) == store

\* the except branch of initialize_vector_store: no store is left
init_failed(store) == Null

\* lifespan: the process starts and initialize_vector_store makes the store
StartProcess ==
    /\ boot = "off"
    /\ runs < MaxRuns
    /\ runs' = runs + 1
    /\ _store' = NewStore
    /\ boot' = "load"
    /\ UNCHANGED << turnVars, streamVars, FAISS_INDEX_PATH, PRODUCTS_JSON_PATH >>
    /\ UNCHANGED callVars

\* initialize: the load from disk
LoadFromDisk ==
    /\ boot = "load"
    /\ LET load == _load_from_disk(_store, FAISS_INDEX_PATH, PRODUCTS_JSON_PATH)
       IN /\ _store' = load.store
          /\ boot' = IF load.ok THEN "serving" ELSE "fetch"
    /\ UNCHANGED << turnVars, streamVars, runs, FAISS_INDEX_PATH, PRODUCTS_JSON_PATH >>
    /\ UNCHANGED callVars

\* initialize: await client.get_all_products()
FetchProducts ==
    /\ boot = "fetch"
    /\ \E net \in Modes, catalog \in Catalogs :
          IF net = "down"
          THEN /\ _store' = init_failed(_store)
               /\ boot' = "serving"
          ELSE /\ _store' = [_store EXCEPT !._products = catalog]
               /\ boot' = "embed"
    /\ UNCHANGED << turnVars, streamVars, runs, FAISS_INDEX_PATH, PRODUCTS_JSON_PATH >>
    /\ UNCHANGED callVars

\* initialize: await aembed_documents(texts), then the index
EmbedDocuments ==
    /\ boot = "embed"
    /\ \E emb \in Modes :
          IF emb = "down"
          THEN /\ _store' = init_failed(_store)
               /\ boot' = "serving"
          ELSE /\ _store' = [_store EXCEPT !._index = BuildIndex(_store._products)]
               /\ boot' = "save_index"
    /\ UNCHANGED << turnVars, streamVars, runs, FAISS_INDEX_PATH, PRODUCTS_JSON_PATH >>
    /\ UNCHANGED callVars

\* _save_to_disk: faiss.write_index
SaveIndex ==
    /\ boot = "save_index"
    /\ \E disk \in Modes :
          IF disk = "down"
          THEN /\ FAISS_INDEX_PATH' = Partial
               /\ _store' = init_failed(_store)
               /\ boot' = "serving"
          ELSE /\ FAISS_INDEX_PATH' = Full(_store._index)
               /\ boot' = "save_products"
               /\ UNCHANGED _store
    /\ UNCHANGED << turnVars, streamVars, runs, PRODUCTS_JSON_PATH >>
    /\ UNCHANGED callVars

\* _save_to_disk: json.dump to products.json
SaveProducts ==
    /\ boot = "save_products"
    /\ \E disk \in Modes :
          IF disk = "down"
          THEN /\ PRODUCTS_JSON_PATH' = Partial
               /\ _store' = init_failed(_store)
          ELSE /\ PRODUCTS_JSON_PATH' = Full(_store._products)
               /\ UNCHANGED _store
    /\ boot' = "serving"
    /\ UNCHANGED << turnVars, streamVars, runs, FAISS_INDEX_PATH >>
    /\ UNCHANGED callVars

\* the process is killed; a file it was writing may be left cut short
Kill ==
    /\ boot # "off"
    /\ boot' = "off"
    /\ _store' = Null
    /\ \E cut \in BOOLEAN :
          /\ FAISS_INDEX_PATH' =
                 IF cut /\ boot = "save_index" THEN Partial ELSE FAISS_INDEX_PATH
          /\ PRODUCTS_JSON_PATH' =
                 IF cut /\ boot = "save_products" THEN Partial ELSE PRODUCTS_JSON_PATH
    /\ UNCHANGED << turnVars, streamVars, runs >>
    /\ UNCHANGED callVars

(***************************************************************************)
(* process_message (agent.py): the events it yields for the messages the   *)
(* graph streams.  A text is a sequence of characters.  A message of the   *)
(* graph is a HumanMessage, an AIMessageChunk, a whole AIMessage or a      *)
(* ToolMessage whose content is a payload of the tool, not JSON, or empty. *)
(***************************************************************************)
HumanMessage == [kind |-> "human"]
AIMessageChunk(content) == [kind |-> "chunk", content |-> content]
AIMessage(content) == [kind |-> "ai", content |-> content]
ToolMessage(name, content) == [kind |-> "tool", name |-> name, content |-> content]

\* the events of process_message
Token(content) == [type |-> "token", content |-> content]
ToolStart(name) == [type |-> "tool_start", tool |-> name]
PayloadEvent(type, data) == [type |-> type, data |-> data]

\* the text of the except branch of process_message
Apology == << "I apologize, but I encountered an error" >>

\* chat_history: the last 10 messages of the history by role, then the new
\* user message
chat_history(conversation_history) ==
    LET n == Len(conversation_history)
        last == SubSeq(conversation_history, IF n > 10 THEN n - 9 ELSE 1, n)
    IN [i \in DOMAIN last |->
           IF last[i].role = "user" THEN HumanMessage ELSE AIMessage(last[i].content)]
       \o << HumanMessage >>

\* the events of one ToolMessage with content: the payload event by the
\* tool's name and the keys of the parsed content
tool_payload_events(msg) ==
    IF msg.content.kind = "not_json" THEN << >>
    ELSE IF msg.name = "search_products" /\ msg.content.kind = "products"
    THEN << PayloadEvent("products", msg.content) >>
    ELSE IF msg.name = "get_product_details" /\ msg.content.kind = "product"
    THEN << PayloadEvent("product_detail", msg.content) >>
    ELSE IF msg.name \in {"get_cart", "add_to_cart", "remove_from_cart"}
    THEN << PayloadEvent("cart", msg.content) >>
    ELSE << >>

\* a loop body that announces a tool each time it returns
on_tool_message_each(st, msg) ==
    [st EXCEPT !.out = @ \o (IF msg.name # "" THEN << ToolStart(msg.name) >> ELSE << >>)
                         \o tool_payload_events(msg)]

\* the loop body for a ToolMessage with content
on_tool_message(st, msg) ==
    LET first == msg.name # "" /\ msg.name \notin st.sent_tool_starts
    IN [st EXCEPT !.sent_tool_starts = IF first THEN @ \cup {msg.name} ELSE @,
                  !.out = @ \o (IF first THEN << ToolStart(msg.name) >> ELSE << >>)
                            \o tool_payload_events(msg)]

\* the body of the loop of process_message over the streamed messages; st
\* holds full_response, sent_tool_starts and the events yielded so far
on_message(st, msg) ==
    IF msg.kind = "human" THEN st
    ELSE IF msg.kind = "chunk"
    THEN IF msg.content # << >>
         THEN [st EXCEPT !.full_response = @ \o msg.content,
                         !.out = Append(@, Token(msg.content))]
         ELSE st
    ELSE IF msg.kind = "tool" /\ msg.content # Null
    THEN on_tool_message(st, msg)
    ELSE IF msg.kind = "ai"
    THEN IF msg.content # << >> /\ msg.content # st.full_response
         THEN LET remaining == SubSeq(msg.content, Len(st.full_response) + 1,
                                      Len(msg.content))
              IN IF remaining # << >>
                 THEN [st EXCEPT !.full_response = msg.content,
                                 !.out = Append(@, Token(remaining))]
                 ELSE st
         ELSE st
    ELSE st

RECURSIVE stream_loop(_, _)
\* the loop over the messages streamed before the stream ended or raised
stream_loop(st, msgs) ==
    IF msgs = << >> THEN st ELSE stream_loop(on_message(st, Head(msgs)), Tail(msgs))

RECURSIVE replay(_)
\* the fallback's tokens: a token per word of every AIMessage with content
replay(msgs) ==
    IF msgs = << >> THEN << >>
    ELSE LET m == Head(msgs)
             words == IF m.kind \in {"ai", "chunk"} /\ m.content # << >>
                      THEN Split(m.content) ELSE << >>
         IN [i \in DOMAIN words |-> Token(words[i] \o << " " >>)] \o replay(Tail(msgs))

\* process_message without its except clause: the exception leaves the
\* generator after the events yielded so far
process_message_uncaught(conversation_history, run, rerun) ==
    LET st == stream_loop([full_response |-> << >>, sent_tool_starts |-> {},
                           out |-> << >>], run.msgs)
    IN IF run.raises THEN [raised |-> TRUE, exc |-> << "astream" >>, value |-> st.out]
       ELSE IF st.full_response # << >> THEN Return(st.out)
       ELSE IF rerun.raises THEN [raised |-> TRUE, exc |-> << "ainvoke" >>, value |-> st.out]
       ELSE Return(st.out \o replay(chat_history(conversation_history) \o rerun.msgs))

\* process_message: the events yielded for the history, the run of the graph
\* that is streamed (its messages, and whether it then raises) and, when the
\* fallback is taken, the second run of the graph that ainvoke makes
process_message(conversation_history, run, rerun) ==
    LET st == stream_loop([full_response |-> << >>, sent_tool_starts |-> {},
                           out |-> << >>], run.msgs)
    IN IF run.raises THEN Return(Append(st.out, Token(Apology)))
       ELSE IF st.full_response # << >> THEN Return(st.out)
       ELSE IF rerun.raises THEN Return(Append(st.out, Token(Apology)))
       ELSE Return(st.out \o replay(chat_history(conversation_history) \o rerun.msgs))

\* the system instruction, and a response of the model: its text and the
\* names of the tools it requests
SystemMessage == [kind |-> "system"]
ModelResponse(content, calls) ==
    [kind |-> "ai", content |-> content, tool_calls |-> calls]

\* an agent node that passes the running sequence as it is
_agent_node_bare(state, response) ==
    [passed |-> state, update |-> << response >>]

\* _agent_node: the sequence passed to the model, and the update it returns
_agent_node(state, response) ==
    [passed |-> IF state = << >> \/ state[1].kind # "system"
                THEN << SystemMessage >> \o state
                ELSE state,
     update |-> << response >>]

\* the reducer of AgentState.messages
add_messages(left, right) == left \o right

\* ToolNode: one ToolMessage for each tool call of the last message
ToolNode(last) ==
    [i \in DOMAIN last.tool_calls |->
        ToolMessage(last.tool_calls[i], [tool |-> last.tool_calls[i], kind |-> "result"])]

RECURSIVE graph(_, _, _)
\* the compiled graph run on a state: agent, then tools and agent again
\* while the last message requests tools; the model answers with the
\* responses in turn and the run raises when they are used up; run holds
\* the sequences passed to the model, the messages the nodes emitted, and
\* whether the model streams its response or returns it whole
graph(state, responses, run) ==
    IF responses = << >> THEN [run EXCEPT !.raises = TRUE]
    ELSE LET node == _agent_node(state, Head(responses))
             answered == add_messages(state, node.update)
             stepped == [run EXCEPT !.passed = Append(@, node.passed),
                                    !.msgs = Append(@, IF run.chunked
                                                       THEN AIMessageChunk(Head(responses).content)
                                                       ELSE AIMessage(Head(responses).content))]
         IN IF _should_continue(Head(responses).tool_calls) = "continue"
            THEN graph(add_messages(answered, ToolNode(Head(responses))),
                       Tail(responses),
                       [stepped EXCEPT !.msgs = @ \o ToolNode(Head(responses))])
            ELSE stepped

\* a run of the graph on the inputs of a turn
graph_run(conversation_history, responses, chunked) ==
    graph(chat_history(conversation_history), responses,
          [passed |-> << >>, msgs |-> << >>, raises |-> FALSE, chunked |-> chunked])

\* the fallback of process_message is taken: the stream ended without an
\* exception and without text
fallback_taken(run) ==
    /\ ~run.raises
    /\ stream_loop([full_response |-> << >>, sent_tool_starts |-> {},
                    out |-> << >>], run.msgs).full_response = << >>

\* the names of the tools of the ToolMessages of a run: ToolNode has
\* executed each of them
tools_executed(msgs) ==
    LET at == SelectSeq([i \in DOMAIN msgs |-> i], LAMBDA i : msgs[i].kind = "tool")
    IN [k \in DOMAIN at |-> msgs[at[k]].name]

\* a turn of the agent: the graph is streamed, and run again by ainvoke
\* when the fallback is taken; the events, those of them yielded by the
\* loop over the stream, the number of runs of the graph and the tools
\* executed, in order
agent_turn(conversation_history, run, rerun) ==
    [events |-> process_message(conversation_history, run, rerun).value,
     streamed |-> stream_loop([full_response |-> << >>, sent_tool_starts |-> {},
                               out |-> << >>], run.msgs).out,
     runs |-> IF fallback_taken(run) THEN 2 ELSE 1,
     executed |-> tools_executed(run.msgs)
                  \o (IF fallback_taken(run) THEN tools_executed(rerun.msgs) ELSE << >>)]

\* generate_response (chat.py): the frames sent for the events that
\* process_message yields, by type; the text collected is stored unless it
\* is empty, and a failure of the generator or of the write is answered with
\* an error token and the marker
generate_response(yields, write_fails) ==
    LET sent == [i \in DOMAIN yields.value |-> yields.value[i].type]
        text == SelectSeq(sent, LAMBDA type : type = "token")
    IN IF yields.raised \/ (text # << >> /\ write_fails)
       THEN on_exception(sent) ELSE on_exhausted(sent)

(***************************************************************************)
(* Functions called alone, on every argument of small domains.             *)
(***************************************************************************)
\* a catalog of one product more than search_products lists
LongShelf ==
    [i \in 1 .. ResultCap + 1 |->
        [id |-> 100 + i, title |-> << "T", "e", "e" >>, description |-> << "f", "i", "t" >>,
         price |-> 10000 * i, category |-> IF i = 2 THEN "jewelery" ELSE "electronics",
         rating |-> [rate |-> 40, count |-> i]]]

\* the stores a call is made on
Stores == {BuiltStore(Shelf), BuiltStore(Catalog), BuiltStore(LongShelf)}

\* the queries, categories, price bounds and thresholds of a call
Queries == {<< "b", "a", "g" >>, << "u", "s", "b" >>, << "g", "i", "f", "t" >>}
Categories == {None, "Electronics", "men's clothing"}
MaxPrices == {{}, {70000}}
MinScores == {MinScore, 50}

\* ProductVectorStore.search is called
CallSearch ==
    /\ args = Null
    /\ \E store \in Stores, emb \in Modes, query \in Queries, top_k \in 0 .. MaxTopK,
          category \in Categories, max_price \in MaxPrices, min_score \in MinScores :
          /\ args' = [fn |-> "search", store |-> store, query |-> query, top_k |-> top_k,
                      category |-> category, max_price |-> max_price,
                      min_score |-> min_score]
          /\ returned' = search(store, emb, query, top_k, category, max_price, min_score)
    /\ UNCHANGED << _store, turnVars, streamVars, bootVars >>

\* ProductVectorStore.get_all_products is called
CallGetAllProducts ==
    /\ args = Null
    /\ \E store \in Stores, category \in Categories, max_price \in MaxPrices :
          /\ args' = [fn |-> "get_all_products", store |-> store, category |-> category,
                      max_price |-> max_price]
          /\ returned' = Return(get_all_products(store, category, max_price))
    /\ UNCHANGED << _store, turnVars, streamVars, bootVars >>

\* the tool search_products is called without a query, with a ready store or
\* with none
CallBrowse ==
    /\ args = Null
    /\ \E store \in Stores \cup {Null}, net \in UpstreamModes, emb \in Modes,
          category \in Categories, max_price \in MaxPrices :
          LET payload == search_products(store, net, emb, << >>, category, max_price)
          IN /\ args' = [fn |-> "browse", store |-> store, net |-> net,
                         category |-> category, max_price |-> max_price,
                         held |-> _context.last_search_ids]
             /\ returned' = Return(payload)
             /\ _context' = [_context EXCEPT
                                !.last_search_ids = last_search_ids_after(@, payload)]
    /\ UNCHANGED << _store, cart_items, row_seq, conversations, pc, ident, tool_calls,
                    frame, result, hops, expected, overlap, used, fault,
                    streamVars, bootVars >>

\* the ids an earlier search may have left in the context
HeldIds == {{}, {1, 999}}

\* the tool search_products is called with a query, with a ready store or
\* with none
CallSearchProducts ==
    /\ args = Null
    /\ \E store \in Stores \cup {Null}, net \in UpstreamModes, emb \in Modes,
          query \in Queries \cup {<< "o", "f" >>}, category \in Categories,
          max_price \in MaxPrices :
          LET payload == search_products(store, net, emb, query, category, max_price)
          IN /\ args' = [fn |-> "search_products", store |-> store, net |-> net,
                         emb |-> emb, query |-> query, category |-> category,
                         max_price |-> max_price, held |-> _context.last_search_ids]
             /\ returned' = Return(payload)
             /\ _context' = [_context EXCEPT
                                !.last_search_ids = last_search_ids_after(@, payload)]
    /\ UNCHANGED << _store, cart_items, row_seq, conversations, pc, ident, tool_calls,
                    frame, result, hops, expected, overlap, used, fault,
                    streamVars, bootVars >>

\* the tool get_product_details is called
CallGetProductDetails ==
    /\ args = Null
    /\ \E store \in Stores \cup {Null}, net \in UpstreamModes, product_id \in ProductIds :
          LET out == get_product_details_in(_context, store, net, product_id)
          IN /\ args' = [fn |-> "get_product_details", store |-> store, net |-> net,
                         product_id |-> product_id, ctx |-> _context]
             /\ returned' = Return([payload |-> out.payload, warned |-> out.warned])
             /\ _context' = out.ctx
    /\ UNCHANGED << _store, cart_items, row_seq, conversations, pc, ident, tool_calls,
                    frame, result, hops, expected, overlap, used, fault,
                    streamVars, bootVars >>

\* the messages a run of the graph may stream
StreamedMessages ==
    {HumanMessage,
     AIMessageChunk(<< >>),
     AIMessageChunk(<< "h", "i" >>),
     AIMessage(<< "h", "i", " ", "y", "o" >>),
     ToolMessage("search_products", [tool |-> "search_products", kind |-> "products"]),
     ToolMessage("search_products", [tool |-> "search_products", kind |-> "not_json"]),
     ToolMessage("get_cart", [tool |-> "get_cart", kind |-> "cart"]),
     ToolMessage("get_product_details", [tool |-> "get_product_details", kind |-> "error"])}

\* largest number of messages of a streamed run
MaxMsgs == 3

\* the runs of the graph that are streamed: their messages, and whether the
\* run then raises
Runs ==
    {[msgs |-> m, raises |-> r] :
         m \in UNION {[1 .. n -> StreamedMessages] : n \in 0 .. MaxMsgs}, r \in BOOLEAN}

\* the second runs of the graph: it raises, it answers at once, it answers
\* after a tool call, with or without text next to the tool call
Reruns ==
    {[msgs |-> << >>, raises |-> TRUE],
     [msgs |-> << AIMessage(<< "h", "i", " ", "y", "o" >>) >>, raises |-> FALSE],
     [msgs |-> << AIMessage(<< >>),
                  ToolMessage("get_cart", [tool |-> "get_cart", kind |-> "cart"]),
                  AIMessage(<< "h", "i" >>) >>, raises |-> FALSE],
     [msgs |-> << AIMessage(<< "y", "o" >>),
                  ToolMessage("get_cart", [tool |-> "get_cart", kind |-> "cart"]),
                  AIMessage(<< "h", "i" >>) >>, raises |-> FALSE]}

\* the histories of a conversation: none, or one earlier turn
Histories ==
    {<< >>,
     << [role |-> "user", content |-> << "h", "i" >>],
        [role |-> "assistant", content |-> << "o", "k", " ", "g", "o" >>] >>}

\* process_message is iterated to its end
CallProcessMessage ==
    /\ args = Null
    /\ \E conversation_history \in Histories, run \in Runs, rerun \in Reruns :
          /\ args' = [fn |-> "process_message", history |-> conversation_history,
                      run |-> run, rerun |-> rerun]
          /\ returned' = process_message(conversation_history, run, rerun)
    /\ UNCHANGED << _store, turnVars, streamVars, bootVars >>

\* the stores that are not ready: never initialized, products fetched and
\* the index not built, index read from disk and the products not loaded
UnreadyStores ==
    {NewStore,
     [_index |-> Null, _products |-> Catalog],
     [_index |-> BuildIndex(Catalog), _products |-> << >>]}

\* a query method of ProductVectorStore is called on a store that is not
\* ready
CallNotReady ==
    /\ args = Null
    /\ \E store \in UnreadyStores, category \in Categories, max_price \in MaxPrices :
          \/ \E emb \in Modes, query \in Queries :
                 /\ args' = [fn |-> "not_ready", method |-> "search", store |-> store]
                 /\ returned' = search(store, emb, query, ResultCap, category, max_price,
                                       MinScore)
          \/ /\ args' = [fn |-> "not_ready", method |-> "get_all_products",
                         store |-> store]
             /\ returned' = Return(get_all_products(store, category, max_price))
          \/ \E product_id \in ProductIds :
                 /\ args' = [fn |-> "not_ready", method |-> "get_product_by_id",
                             store |-> store]
                 /\ returned' = Return(get_product_by_id(store, product_id))
          \/ /\ args' = [fn |-> "not_ready", method |-> "get_all_categories",
                         store |-> store]
             /\ returned' = Return(get_all_categories(store))
    /\ UNCHANGED << _store, turnVars, streamVars, bootVars >>

\* FakeStoreClient._request is called, the upstream answering each attempt
\* in its own way
CallRequest ==
    /\ args = Null
    /\ \E replies \in [1 .. MaxAttempts -> ReplyKinds], future_id \in FutureIds :
          LET made == _request(replies, future_id)
          IN /\ args' = [fn |-> "_request", replies |-> replies, future_id |-> future_id]
             /\ returned' = [raised |-> made.outcome.raised, outcome |-> made.outcome,
                             attempts |-> made.attempts]
    /\ UNCHANGED << _store, turnVars, streamVars, bootVars >>

\* add_to_cart is called up to the cart write: what it returns when its
\* checks end the call
CallAddToCartCheck ==
    /\ args = Null
    /\ \E store \in Stores \cup {Null}, net \in UpstreamModes, product_id \in ProductIds,
          quantity \in 0 .. MaxQuantity :
          LET check == add_to_cart_check(store, net, product_id, quantity)
          IN /\ args' = [fn |-> "add_to_cart", store |-> store, net |-> net,
                         product_id |-> product_id, quantity |-> quantity]
             /\ returned' =
                    IF check.go THEN Return([tool |-> "add_to_cart", kind |-> "checked"])
                    ELSE Return(ToolReturn("add_to_cart", "Failed to add to cart",
                                           check.out))
    /\ UNCHANGED << _store, turnVars, streamVars, bootVars >>

\* the tool get_categories is called, with a ready store or with none
CallGetCategories ==
    /\ args = Null
    /\ \E store \in Stores \cup {Null}, net \in UpstreamModes, listed \in CategoryLists :
          /\ args' = [fn |-> "get_categories", store |-> store, net |-> net,
                      listed |-> listed]
          /\ returned' = Return(get_categories(store, net, listed))
    /\ UNCHANGED << _store, turnVars, streamVars, bootVars >>

\* largest number of add_message calls before a read, and the last value of
\* the clock
MaxMessages == 3
MaxTick == 2

\* a row of the messages table: the autoincrement id and the created_at
\* default, the clock's value when the row is made
Message(id, conversation_id, created_at) ==
    [id |-> id, conversation_id |-> conversation_id, created_at |-> created_at]

\* add_message: a new row at the clock's value
add_message(table, conversation_id, now) ==
    Append(table, Message(Len(table) + 1, conversation_id, now))

\* the sequences of add_message calls: the clock does not go back between
\* two calls, and it may stand still
MessageLogs ==
    {log \in UNION {[1 .. n -> ConversationIds \X (1 .. MaxTick)] : n \in 0 .. MaxMessages} :
         \A i \in DOMAIN log : i > 1 => log[i - 1][2] <= log[i][2]}

RECURSIVE TableOf(_)
\* the table after the calls of a log
TableOf(log) ==
    IF log = << >> THEN << >>
    ELSE add_message(TableOf(SubSeq(log, 1, Len(log) - 1)),
                     log[Len(log)][1], log[Len(log)][2])

\* ORDER BY created_at DESC: the orders of the rows the statement allows; rows
\* of equal created_at come in an order the database chooses
order_by_created_at_desc(rows) ==
    {o \in [1 .. Cardinality(rows) -> rows] :
         /\ \A i, j \in DOMAIN o : i # j => o[i] # o[j]
         /\ \A i, j \in DOMAIN o : i < j => o[i].created_at >= o[j].created_at}

\* rows.reverse()
Reversed(rows) == [i \in DOMAIN rows |-> rows[Len(rows) + 1 - i]]

\* get_messages: the lists it may return
get_messages(table, conversation_id, limit) ==
    LET rows == {table[i] : i \in {k \in DOMAIN table :
                                       table[k].conversation_id = conversation_id}}
    IN {Reversed(SubSeq(o, 1, IF limit < Len(o) THEN limit ELSE Len(o))) :
            o \in order_by_created_at_desc(rows)}

\* get_messages is called after a sequence of add_message calls
CallGetMessages ==
    /\ args = Null
    /\ \E log \in MessageLogs, conversation_id \in ConversationIds,
          limit \in 0 .. MaxMessages :
          \E rows \in get_messages(TableOf(log), conversation_id, limit) :
              /\ args' = [fn |-> "get_messages", table |-> TableOf(log),
                          conversation_id |-> conversation_id, limit |-> limit]
              /\ returned' = Return(rows)
    /\ UNCHANGED << _store, turnVars, streamVars, bootVars >>

\* the responses the model may give at a step
ModelResponses ==
    {ModelResponse(<< "h", "i" >>, << >>),
     ModelResponse(<< >>, << >>),
     ModelResponse(<< >>, << "add_to_cart" >>),
     ModelResponse(<< "o", "k" >>, << "search_products", "get_cart" >>)}

\* the graph is run on the history and the new user message
CallGraph ==
    /\ args = Null
    /\ \E conversation_history \in Histories,
          responses \in UNION {[1 .. n -> ModelResponses] : n \in 1 .. MaxMsgs} :
          /\ args' = [fn |-> "graph", history |-> conversation_history,
                      responses |-> responses]
          /\ returned' = Return(graph_run(conversation_history, responses, TRUE).passed)
    /\ UNCHANGED << _store, turnVars, streamVars, bootVars >>

\* a turn of the agent on a graph whose model answers with the first
\* responses when it is streamed and with the second when it is run again
CallAgentTurn ==
    /\ args = Null
    /\ \E conversation_history \in Histories,
          first \in UNION {[1 .. n -> ModelResponses] : n \in 1 .. MaxMsgs},
          second \in UNION {[1 .. n -> ModelResponses] : n \in 1 .. MaxMsgs},
          chunked \in BOOLEAN :
          LET run == graph_run(conversation_history, first, chunked)
              rerun == graph_run(conversation_history, second, FALSE)
          IN /\ args' = [fn |-> "agent_turn", history |-> conversation_history,
                         first |-> first, second |-> second, chunked |-> chunked]
             /\ returned' = Return(agent_turn(conversation_history, run, rerun))
    /\ UNCHANGED << _store, turnVars, streamVars, bootVars >>

\* the queries of a keyword search: a word of a description, a word in
\* capitals, a title, a short word, a title of two letters, a word and a short
\* word, a word of no product
KeywordQueries ==
    {<< "b", "a", "g" >>, << "B", "a", "g" >>, << "p", "a", "c", "k" >>, << "o", "f" >>,
     << "W", "D" >>, << "u", "s", "b", " ", "o", "f" >>, << "g", "i", "f", "t" >>}

\* FakeStoreClient.search_products is called with a query
CallKeywordSearch ==
    /\ args = Null
    /\ \E net \in UpstreamModes, query \in KeywordQueries, category \in Categories,
          max_price \in MaxPrices :
          /\ args' = [fn |-> "client_search_products", net |-> net, query |-> query,
                      category |-> category, max_price |-> max_price]
          /\ returned' = client_search_products(net, query, category, max_price)
    /\ UNCHANGED << _store, turnVars, streamVars, bootVars >>

\* the product ids of cart rows
RowProductIds == {1, 2, 7, 9, 999}

\* the sequences of at most n distinct product ids
PidSeqs(n) ==
    {q \in UNION {[1 .. k -> RowProductIds] : k \in 0 .. n} :
         \A i, j \in DOMAIN q : i # j => q[i] # q[j]}

\* the contexts a cart tool is called in
CallContexts ==
    {[conversation_id |-> "c1", user_id |-> u, last_search_ids |-> {}] :
         u \in {None} \cup UserIds}

\* the cart table in which the owner of ctx holds the products of pids in
\* that order with the quantities of qty, next to a row of another owner
CartOf(ctx, pids, qty) ==
    {[id |-> i, user_id |-> ctx.user_id,
      conversation_id |-> IF ctx.user_id = None THEN ctx.conversation_id ELSE None,
      product_id |-> pids[i], quantity |-> qty[i]] : i \in DOMAIN pids}
    \cup {[id |-> Len(pids) + 1, user_id |-> None, conversation_id |-> "c2",
           product_id |-> 1, quantity |-> 1]}

\* largest number of rows of a cart that is read
MaxRows == 2

\* the tool get_cart is called
CallGetCart ==
    /\ args = Null
    /\ \E ctx \in CallContexts, pids \in PidSeqs(MaxRows), store \in Stores \cup {Null},
          net \in UpstreamModes, db \in Modes :
          \E qty \in [DOMAIN pids -> 1 .. MaxQuantity] :
              /\ args' = [fn |-> "get_cart", rows |-> CartOf(ctx, pids, qty), ctx |-> ctx,
                          store |-> store, net |-> net, db |-> db]
              /\ returned' = Return(get_cart(CartOf(ctx, pids, qty), ctx, store, net, db))
    /\ UNCHANGED << _store, turnVars, streamVars, bootVars >>

(***************************************************************************)
(* Specifications.                                                         *)
(***************************************************************************)
\* no turn has started
\* no turn has begun; the context holds the ids its last search left
InitTurnVarsHolding(ids) ==
    /\ cart_items = {}
    /\ row_seq = 0
    /\ conversations = {}
    /\ _context = [conversation_id |-> "default", user_id |-> None, last_search_ids |-> ids]
    /\ pc = [t \in Turns |-> "idle"]
    /\ ident = [t \in Turns |-> Null]
    /\ tool_calls = [t \in Turns |-> << >>]
    /\ frame = [t \in Turns |-> Null]
    /\ result = [t \in Turns |-> Null]
    /\ hops = [t \in Turns |-> 0]
    /\ expected = [k \in Owners \X ProductIds |-> 0]
    /\ overlap = [o \in Owners |-> "no"]
    /\ used = [t \in Turns |-> Null]
    /\ fault = [t \in Turns |-> FALSE]

InitTurnVars == InitTurnVarsHolding({})

\* no function is called alone
InitCallVars ==
    /\ args = Null
    /\ returned = Null

\* no chat request has come
InitStreamVars ==
    /\ messages = << >>
    /\ stream = [at |-> "idle", conversation_id |-> None]
    /\ events = << >>
    /\ assistant_response = << >>

\* startup is over and left the store: built and saved, or none
Served(store) ==
    /\ _store = store
    /\ boot = "serving"
    /\ runs = 1
    /\ FAISS_INDEX_PATH = IF store = Null THEN Absent ELSE Full(store._index)
    /\ PRODUCTS_JSON_PATH = IF store = Null THEN Absent ELSE Full(store._products)

\* startup left no vector store: the tools take the upstream path
InitCart == Served(Null) /\ InitTurnVars /\ InitStreamVars /\ InitCallVars

\* two concurrent turns using the cart tools
NextCart ==
    \E t \in Turns :
        \/ StartTurn(t)
        \/ AgentStep(t, CartRequests)
        \/ GetCart(t)
        \/ AddToCartSelect(t)
        \/ AddToCartUpsert(t)
        \/ AddToCartFlush(t)
        \/ RemoveFromCartDelete(t)
        \/ RemoveFromCartFinish(t)

SpecCart == InitCart /\ [][NextCart]_vars

\* the store is ready, or startup left none
InitTools == (\E store \in {Null, BuiltStore(Catalog)} : Served(store))
             /\ InitTurnVars /\ InitStreamVars /\ InitCallVars

\* one turn using every tool with every argument
NextTools ==
    \E t \in {"t1"} :
        \/ StartTurn(t)
        \/ AgentStep(t, Requests)
        \/ AgentFails(t)
        \/ SearchProducts(t)
        \/ GetCategories(t)
        \/ GetProductDetails(t)
        \/ GetCart(t)
        \/ AddToCartSelect(t)
        \/ AddToCartUpsert(t)
        \/ AddToCartFlush(t)
        \/ RemoveFromCartDelete(t)
        \/ RemoveFromCartFinish(t)

SpecTools == InitTools /\ [][NextTools]_vars

\* the same turn, every step of which is eventually taken
FairTools == SpecTools /\ WF_vars(NextTools)

\* one chat request
InitStream == Served(Null) /\ InitTurnVars /\ InitStreamVars /\ InitCallVars

NextStream ==
    \/ ChatEndpoint
    \/ StreamChunk
    \/ StreamRaises
    \/ StreamEnds
    \/ ClientDisconnects

SpecStream == InitStream /\ [][NextStream]_vars

\* the machine before the first run of the process
InitStore ==
    /\ _store = Null
    /\ boot = "off"
    /\ runs = 0
    /\ FAISS_INDEX_PATH = Absent
    /\ PRODUCTS_JSON_PATH = Absent
    /\ InitTurnVars
    /\ InitStreamVars
    /\ InitCallVars

NextStore ==
    \/ StartProcess
    \/ LoadFromDisk
    \/ FetchProducts
    \/ EmbedDocuments
    \/ SaveIndex
    \/ SaveProducts
    \/ Kill

SpecStore == InitStore /\ [][NextStore]_vars

\* one run of the process: startup, then one turn using every tool
NextDegraded ==
    \/ StartProcess
    \/ LoadFromDisk
    \/ FetchProducts
    \/ EmbedDocuments
    \/ SaveIndex
    \/ SaveProducts
    \/ \E t \in {"t1"} :
           \/ StartTurn(t)
           \/ AgentStep(t, Requests)
           \/ AgentFails(t)
           \/ SearchProducts(t)
           \/ GetCategories(t)
           \/ GetProductDetails(t)
           \/ GetCart(t)
           \/ AddToCartSelect(t)
           \/ AddToCartUpsert(t)
           \/ AddToCartFlush(t)
           \/ RemoveFromCartDelete(t)
           \/ RemoveFromCartFinish(t)

SpecDegraded == InitStore /\ [][NextDegraded]_vars

\* the second request arrives once the first turn has begun
StartLaterTurn == pc["t1"] # "idle" /\ StartTurn("t2")

\* two turns that search, the second begun after the first
NextSearch ==
    \/ StartTurn("t1")
    \/ StartLaterTurn
    \/ \E t \in Turns :
           \/ AgentStep(t, SearchRequests)
           \/ AgentFails(t)
           \/ SearchProducts(t)

SpecSearch == InitTools /\ [][NextSearch]_vars

\* one call of one function
InitCalls ==
    /\ Served(Null)
    /\ \E ids \in HeldIds : InitTurnVarsHolding(ids)
    /\ InitStreamVars
    /\ InitCallVars

NextCalls ==
    \/ CallSearch
    \/ CallGetAllProducts
    \/ CallBrowse
    \/ CallSearchProducts
    \/ CallGetProductDetails
    \/ CallProcessMessage
    \/ CallNotReady
    \/ CallRequest
    \/ CallAddToCartCheck
    \/ CallGetCategories
    \/ CallGetMessages
    \/ CallGraph
    \/ CallAgentTurn
    \/ CallKeywordSearch
    \/ CallGetCart

SpecCalls == InitCalls /\ [][NextCalls]_vars

(***************************************************************************)
(* Claims about the cart and the tool layer.                               *)
(***************************************************************************)
\* the rows keyed by owner o for product p
RowsOf(o, p) ==
    {r \in cart_items : /\ r.user_id = o.user_id
                        /\ r.conversation_id = o.conversation_id
                        /\ r.product_id = p}

\* the owner's row for p, if any, holds exactly the quantity added since the
\* row was last removed, and there is no second row
OneRowSummed(o, p) ==
    /\ Cardinality(RowsOf(o, p)) <= 1
    /\ SumQuantity(RowsOf(o, p)) = expected[<< o, p >>]

\* C1: as long as the add_to_cart and remove_from_cart calls of an owner run
\* one after the other, the cart holds at most one row per (owner, product)
\* and its quantity is the sum of the quantities added since the row was last
\* removed.
C1_OneRowSummedQuantity ==
    \A o \in Owners : overlap[o] = "no" => \A p \in ProductIds : OneRowSummed(o, p)

\* C1 witness: one owner, calls in sequence, and a single row whose quantity
\* is more than one call can add.
C1_Witness ==
    \E o \in Owners, p \in ProductIds :
        /\ overlap[o] = "no"
        /\ \E r \in RowsOf(o, p) : r.quantity > MaxQuantity
        /\ OneRowSummed(o, p)

\* no add_to_cart of owner o is between its SELECT and its commit
NoAddInFlight(o) == \A t \in Turns : ~(InAdd(t) /\ frame[t].kw = o)

\* C2: when add_to_cart calls of one owner overlap (and no removal does),
\* after they complete there is exactly one row per product and its quantity
\* is the prior quantity plus every increment.
C2_NoLostUpdate ==
    \A o \in Owners :
        (overlap[o] # "mixed" /\ NoAddInFlight(o)) => \A p \in ProductIds : OneRowSummed(o, p)

\* C3: every tool call of a turn reads, in the tool context, the conversation
\* identifier, user identifier and last-search-ID set of that same turn.
C3_TurnScopedContext ==
    \A t \in Turns : used[t] # Null => used[t].read = used[t].own

\* a row is keyed by the owner the context resolves to
KeyedBy(r, ctx) ==
    IF ctx.user_id # None
    THEN r.user_id = ctx.user_id
    ELSE r.user_id = None /\ r.conversation_id = ctx.conversation_id

\* the (product, quantity) pairs of the rows keyed by the context's owner
KeyedPairs(ctx) ==
    {<< r.product_id, r.quantity >> : r \in {x \in cart_items : KeyedBy(x, ctx)}}

PayloadKinds ==
    {"products", "no_results", "categories", "product", "added", "cart", "cart_empty",
     "removed", "removed_empty", "error"}

\* C5: every tool call returns a structured payload, never an escaped
\* exception, and the payload is an error payload when the store, the
\* upstream client or the database failed during the call.
C5_NoEscapingException ==
    \A t \in Turns :
        result[t] # Null =>
            /\ result[t].kind \in PayloadKinds
            /\ fault[t] => result[t].kind = "error"

\* C5 witness: a get_cart call that met a failure and returned an error payload.
C5_Witness ==
    \E t \in Turns :
        /\ result[t] # Null
        /\ fault[t]
        /\ result[t].tool = "get_cart"
        /\ result[t].kind = "error"

(***************************************************************************)
(* Claims about the control loop.                                          *)
(***************************************************************************)
\* the positions of a turn inside the tool step
ToolPositions == {"tools", "add_upsert", "add_flush", "rm_finish"}

\* C6: after a model step the turn is in the tool step exactly when the last
\* message carries a tool call, and is over otherwise; a tool step is left
\* only for the model step; a turn ends only out of a model step, and the
\* tool step is entered only out of a model step, with a pending tool call.
C6_Routing ==
    [][\A t \in Turns :
           /\ (pc[t] = "agent" /\ pc'[t] \in {"tools", "end"}) =>
                  (pc'[t] = "tools" <=> tool_calls'[t] # << >>)
           /\ (pc[t] \in ToolPositions /\ pc'[t] \notin ToolPositions) => pc'[t] = "agent"
           /\ (pc'[t] = "end" /\ pc[t] # "end") => pc[t] = "agent"
           /\ (pc'[t] \in ToolPositions /\ pc[t] \notin ToolPositions) =>
                  (pc[t] = "agent" /\ tool_calls'[t] # << >>)
           /\ pc[t] \in ToolPositions => tool_calls[t] # << >>
      ]_vars

\* C6 witness: a turn that went through the tool step, back to the model
\* step, and ended there.
C6_Witness ==
    \E t \in Turns : pc[t] = "end" /\ hops[t] >= 1 /\ tool_calls[t] = << >>

\* C7: a turn at the model step eventually ends (or the model call fails),
\* given that the model stops requesting tools; and it ends at a model step
\* exactly when that step's message carries no tool call, however many tool
\* steps came before.
C7_NaturalTermination ==
    /\ \A t \in Turns : (pc[t] = "agent") ~> (pc[t] \in {"end", "failed"})
    /\ [][\A t \in Turns :
              (pc[t] = "agent" /\ pc'[t] \in {"tools", "end"}) =>
                  (pc'[t] = "end" <=> tool_calls'[t] = << >>)
         ]_vars

\* C7 witness: a turn that ended after as many tool steps as the model asked for.
C7_Witness ==
    \E t \in Turns : pc[t] = "end" /\ hops[t] = MaxHops

(***************************************************************************)
(* Claims about the response stream.                                       *)
(***************************************************************************)
\* how many times the marker was sent
DoneCount(sent) == Cardinality({i \in DOMAIN sent : sent[i] = DONE})

\* C8: nothing follows an end-of-turn marker, and a stream that ran to its
\* end carries exactly one marker, as its last event.
C8_OneEndMarker ==
    /\ \A i \in DOMAIN events : events[i] = DONE => i = Len(events)
    /\ stream.at = "closed" =>
           /\ events # << >>
           /\ events[Len(events)] = DONE
           /\ DoneCount(events) = 1

\* C8 witness: a stream that collected text, met an exception before the
\* assistant message was stored, and ran to its end.
C8_Witness ==
    /\ stream.at = "closed"
    /\ assistant_response # << >>
    /\ \A i \in DOMAIN messages : messages[i].role # "assistant"
    /\ Len(events) >= 3

(***************************************************************************)
(* Claims about the vector store at startup.                               *)
(***************************************************************************)
\* the index holds one vector per product, at the product's position
Corresponds(store) ==
    /\ Len(store._index.vectors) = Len(store._products)
    /\ \A i \in DOMAIN store._products : store._index.vectors[i] = Embed(store._products[i])

\* C9: whenever the store reports is_ready, the index has as many vectors as
\* there are products and the vector at position i is the embedding of
\* products[i].
C9_IndexMatchesProducts ==
    (_store # Null /\ is_ready(_store)) => Corresponds(_store)

\* C10: while initialize is fetching the products or embedding them, the
\* store that get_vector_store returns does not report is_ready.
C10_NeverReadyHalfBuilt ==
    boot \in {"fetch", "embed"} => ~(_store # Null /\ is_ready(_store))

(***************************************************************************)
(* Claims about degraded startup.                                          *)
(***************************************************************************)
\* a step at which initialize raised and startup ended
InitFailure ==
    \/ boot \in {"fetch", "embed", "save_index"} /\ boot' = "serving"
    \/ boot = "save_products" /\ boot' = "serving" /\ PRODUCTS_JSON_PATH'.state # "full"

\* the ids of the upstream catalog
CatalogIds == {Catalog[i].id : i \in DOMAIN Catalog}

\* product p holds a query word of more than 2 characters (or there is no
\* query) and passes the category and price of the request
MatchesRequest(p, call) ==
    /\ CategoryMatches(p, call.category)
    /\ PriceMatches(p, call.max_price)
    /\ \/ call.query = << >>
       \/ LET words == Split(LowerText(call.query))
          IN \E i \in DOMAIN words :
                 /\ Len(words[i]) > 2
                 /\ \/ Contains(words[i], LowerText(p.title))
                    \/ Contains(words[i], LowerText(p.description))

\* the ids a tool result lists
ListedIds(payload) ==
    IF payload.kind = "products"
    THEN {payload.products[i].id : i \in DOMAIN payload.products}
    ELSE {}

\* C11: a startup at which initialize raises ends with no store and the
\* process serving; with no store, a search_products, get_categories,
\* get_product_details or add_to_cart call that meets no failure of its own
\* answers from the upstream catalog: every matching product is listed, the
\* categories are returned, a catalog product is detailed, a catalog product
\* is added.
C11_DegradesToFallback ==
    [][ /\ InitFailure => _store' = Null
        /\ \A t \in Turns :
               (_store = Null /\ pc[t] = "tools" /\ pc'[t] # "tools" /\ ~fault'[t]) =>
                   /\ Call(t).name = "search_products" =>
                          \A i \in DOMAIN Catalog :
                              MatchesRequest(Catalog[i], Call(t)) =>
                                  Catalog[i].id \in ListedIds(result'[t])
                   /\ Call(t).name = "get_categories" => result'[t].kind = "categories"
                   /\ (Call(t).name = "get_product_details"
                           /\ Call(t).product_id \in CatalogIds) =>
                          (result'[t].kind = "product" /\ result'[t].id = Call(t).product_id)
                   /\ (Call(t).name = "add_to_cart" /\ Call(t).product_id \in CatalogIds
                           /\ Call(t).quantity >= 1) =>
                          pc'[t] = "add_upsert"
        /\ \A t \in Turns :
               (_store = Null /\ pc[t] = "add_flush" /\ pc'[t] # "add_flush" /\ ~fault'[t]) =>
                   result'[t].kind = "added"
      ]_vars

\* C11 witness: startup failed, the process serves, and a search returned
\* products from the upstream catalog.
C11_Witness ==
    /\ boot = "serving"
    /\ _store = Null
    /\ \E t \in Turns : result[t] # Null /\ result[t].kind = "products"

(***************************************************************************)
(* Claims about retrieval.                                                 *)
(***************************************************************************)
\* a search was called and returned a list
Searched == args # Null /\ args.fn = "search" /\ ~returned.raised

\* the similarity of the product at position i of the searched store
ScoreAt(i) == Similarity(args.query, Embed(args.store._products[i]))

\* C12: search returns at most top_k products, each of similarity at least
\* min_score to the query.
C12_CapAndThreshold ==
    Searched =>
        /\ Len(returned.value) <= args.top_k
        /\ \A j \in DOMAIN returned.value :
               \E i \in DOMAIN args.store._products :
                   /\ args.store._products[i] = returned.value[j]
                   /\ ScoreAt(i) >= args.min_score

\* the positions of the searched store that pass the threshold and the filters
Passing ==
    {i \in DOMAIN args.store._products :
         /\ ScoreAt(i) >= args.min_score
         /\ CategoryMatches(args.store._products[i], args.category)
         /\ PriceMatches(args.store._products[i], args.max_price)}

\* position i comes before position j in the ranking
Outranks(i, j) == ScoreAt(i) > ScoreAt(j) \/ (ScoreAt(i) = ScoreAt(j) /\ i < j)

\* the position in the searched store of a returned product
PositionOf(p) == CHOOSE i \in DOMAIN args.store._products : args.store._products[i] = p

\* C13: search returns the first top_k of the passing positions in ranking
\* order: as many as top_k or all of them, only passing ones, in ranking
\* order, and none left out that outranks a returned one.
C13_FilterBeforeCap ==
    Searched =>
        LET out == returned.value
            at == [j \in DOMAIN out |-> PositionOf(out[j])]
        IN /\ Len(out) = IF Cardinality(Passing) < args.top_k
                         THEN Cardinality(Passing) ELSE args.top_k
           /\ \A j \in DOMAIN out : at[j] \in Passing
           /\ \A j, k \in DOMAIN out : j < k => Outranks(at[j], at[k])
           /\ \A i \in Passing \ {at[j] : j \in DOMAIN out} :
                  \A j \in DOMAIN out : Outranks(at[j], i)

\* the catalog a browse reads: the store's products, or the upstream catalog
\* when there is no store
Browsed == IF args.store = Null THEN Catalog ELSE args.store._products

\* the positions of the browsed catalog whose product has the category asked
\* for, whatever the case of its letters, and a price within max_price
Selected ==
    {i \in DOMAIN Browsed :
         /\ args.category # None =>
                LowerCategory(Browsed[i].category) = LowerCategory(args.category)
         /\ \A m \in args.max_price : Browsed[i].price <= m}

\* the selected products in catalog order
SelectedProducts ==
    [j \in 1 .. Cardinality(Selected) |->
        Browsed[CHOOSE i \in Selected : Cardinality({k \in Selected : k <= i}) = j]]

\* the payload of search_products that lists the first n selected products
Listing(n) ==
    IF n = 0 THEN [tool |-> "search_products", kind |-> "no_results"]
    ELSE [tool |-> "search_products", kind |-> "products", count |-> n,
          products |-> [j \in 1 .. n |-> Abbreviated(SelectedProducts[j])]]

\* a browse that reached its catalog
BrowseAnswered ==
    /\ args # Null
    /\ args.fn = "browse"
    /\ args.store = Null => args.net.upstream = "up"

\* C14: get_all_products returns exactly the selected products in catalog
\* order; search_products without a query lists the first ResultCap of them,
\* in catalog order, and all of them when there are no more than ResultCap.
C14_BrowseFilteredCapped ==
    /\ args # Null /\ args.fn = "get_all_products" =>
           returned = Return(SelectedProducts)
    /\ BrowseAnswered =>
           returned.value = Listing(IF Cardinality(Selected) < ResultCap
                                    THEN Cardinality(Selected) ELSE ResultCap)

\* a browse that selected more products than are listed
C14_Witness ==
    /\ BrowseAnswered
    /\ args.store # Null
    /\ Cardinality(Selected) > ResultCap
    /\ returned.value.kind = "products"
    /\ returned.value.count = ResultCap
    /\ _context.last_search_ids = {SelectedProducts[j].id : j \in 1 .. ResultCap}

\* C14 as stated: search_products without a query lists every selected
\* product, as get_all_products returns them.
C14_BrowseExactly ==
    /\ args # Null /\ args.fn = "get_all_products" =>
           returned = Return(SelectedProducts)
    /\ BrowseAnswered => returned.value = Listing(Cardinality(Selected))

\* a keyword search that reached the upstream catalog
KeywordSearched ==
    args # Null /\ args.fn = "client_search_products" /\ ~returned.raised

\* the words of the query that are longer than 2 characters, in lower case
QueryWords == {w \in SeqToSet(Split(LowerText(args.query))) : Len(w) > 2}

\* the positions of the upstream catalog whose product holds a query word in
\* its title or description and has the category and a price within max_price
Kept ==
    {i \in DOMAIN Catalog :
         /\ \E w \in QueryWords :
                \/ Contains(w, LowerText(Catalog[i].title))
                \/ Contains(w, LowerText(Catalog[i].description))
         /\ args.category # None =>
                LowerCategory(Catalog[i].category) = LowerCategory(args.category)
         /\ \A m \in args.max_price : Catalog[i].price <= m}

\* C15: the keyword fallback returns exactly the products that hold a query
\* word longer than 2 characters and pass the category and the price, in
\* catalog order; a product holding no such word is not returned, also when
\* every query word is short.
C15_KeywordFilter ==
    KeywordSearched =>
        returned.value =
            [j \in 1 .. Cardinality(Kept) |->
                Catalog[CHOOSE i \in Kept : Cardinality({k \in Kept : k <= i}) = j]]

(***************************************************************************)
(* Claims about the cart tools.                                            *)
(***************************************************************************)
\* get_cart was called with the database up and, when there is no store, the
\* upstream API up
CartRead ==
    /\ args # Null
    /\ args.fn = "get_cart"
    /\ args.db = "up"
    /\ args.store = Null => args.net.upstream = "up"

\* the catalog the products of a cart are looked up in
LiveCatalog == IF args.store = Null THEN Catalog ELSE args.store._products

\* the rows of the calling owner, and those whose product the catalog holds
OwnRows ==
    {r \in args.rows :
         IF args.ctx.user_id # None
         THEN r.user_id = args.ctx.user_id
         ELSE r.user_id = None /\ r.conversation_id = args.ctx.conversation_id}

ResolvableRows ==
    {r \in OwnRows : \E i \in DOMAIN LiveCatalog : LiveCatalog[i].id = r.product_id}

\* the live price of the product of a resolvable row
PriceOf(r) ==
    LiveCatalog[CHOOSE i \in DOMAIN LiveCatalog : LiveCatalog[i].id = r.product_id].price

RECURSIVE SumPriceQuantity(_)
\* the sum of price x quantity over a set of resolvable rows
SumPriceQuantity(rows) ==
    IF rows = {} THEN 0
    ELSE LET r == CHOOSE x \in rows : TRUE
         IN PriceOf(r) * r.quantity + SumPriceQuantity(rows \ {r})

\* C16: get_cart lists one item per resolvable row of the owner, with subtotal
\* price x quantity rounded to 2 decimals; total is the sum of price x quantity
\* over the listed lines rounded to 2 decimals, and item_count the number of
\* listed lines.
C16_CartArithmetic ==
    CartRead =>
        LET payload == returned.value
        IN IF OwnRows = {}
           THEN payload.kind = "cart_empty" /\ payload.items = << >> /\ payload.total = 0
           ELSE /\ payload.kind = "cart"
                /\ Len(payload.items) = Cardinality(ResolvableRows)
                /\ \A r \in ResolvableRows :
                       \E j \in DOMAIN payload.items :
                           /\ payload.items[j].product_id = r.product_id
                           /\ payload.items[j].quantity = r.quantity
                           /\ payload.items[j].price = PriceOf(r)
                           /\ payload.items[j].subtotal = Round2(PriceOf(r) * r.quantity)
                /\ payload.total = Round2(SumPriceQuantity(ResolvableRows))
                /\ payload.item_count = Cardinality(ResolvableRows)

\* turn t takes a step
Stepped(t) == tool_calls'[t] # tool_calls[t] \/ pc'[t] # pc[t]

\* turn t is about to run the named tool
About(t, name) == pc[t] = "tools" /\ Call(t).name = name

\* the rows the owner in the context holds for a product
HeldRows(product_id) ==
    {r \in OwnerRows(cart_items, _cart_kwargs(_context)) : r.product_id = product_id}

\* the payload of remove_from_cart for a product the owner does not hold
NotInCart == ErrorPayload("remove_from_cart", << "not in your cart" >>)

\* C17: remove_from_cart for a product the owner has no row for returns the
\* NotInCart error payload (the database failure payload when the database
\* fails) and leaves every cart row of every owner as it was.
C17_RemoveAbsent ==
    [][\A t \in Turns :
           About(t, "remove_from_cart") /\ Stepped(t) /\ HeldRows(Call(t).product_id) = {}
           => /\ cart_items' = cart_items
              /\ pc'[t] # "rm_finish"
              /\ result'[t].kind = "error"
              /\ ~fault'[t] => result'[t] = NotInCart]_vars

\* a removal was refused as not in the cart while the table holds rows
C17_Witness ==
    \E t \in Turns :
        /\ result[t] = NotInCart
        /\ ~fault[t]
        /\ cart_items # {}

\* the payload of get_cart for an owner without rows
CartIsEmpty == [tool |-> "get_cart", kind |-> "cart_empty", items |-> << >>, total |-> 0]

\* C18: once remove_from_cart has deleted the owner's row it returns the
\* 'cart is now empty' message when the owner has no row left and the count
\* of the remaining rows otherwise, leaving those rows as they are; a
\* get_cart of an owner without rows returns the empty listing with total 0.
C18_RemoveLast ==
    [][\A t \in Turns :
           /\ pc[t] = "rm_finish" /\ Stepped(t) =>
                  LET left == OwnerRows(cart_items, frame[t].kw)
                  IN /\ cart_items' = cart_items
                     /\ result'[t] =
                            IF left = {}
                            THEN [tool |-> "remove_from_cart", kind |-> "removed_empty"]
                            ELSE [tool |-> "remove_from_cart", kind |-> "removed",
                                  remaining_items |-> Cardinality(left)]
           /\ About(t, "get_cart") /\ Stepped(t) /\ ~fault'[t]
                  /\ OwnerRows(cart_items, _cart_kwargs(_context)) = {}
              => result'[t] = CartIsEmpty]_vars

\* the ids of the products of the live catalog source: the ready store's, or
\* the upstream catalog's when there is no ready store
LiveIds ==
    IF _store # Null /\ is_ready(_store)
    THEN {_store._products[i].id : i \in DOMAIN _store._products}
    ELSE {Catalog[i].id : i \in DOMAIN Catalog}

\* C19: an add_to_cart with a quantity below 1, or of a product the live
\* catalog source does not hold, returns an error payload and ends without
\* creating or modifying a cart row.
C19_RejectedAdd ==
    [][\A t \in Turns :
           /\ About(t, "add_to_cart") /\ Stepped(t)
           /\ Call(t).quantity < 1 \/ Call(t).product_id \notin LiveIds
           => /\ ~InAdd(t)'
              /\ cart_items' = cart_items
              /\ row_seq' = row_seq
              /\ result'[t].tool = "add_to_cart"
              /\ result'[t].kind = "error"]_vars

\* an add was refused while the cart holds a row of an earlier add
C19_Witness ==
    \E t \in Turns :
        /\ result[t] # Null
        /\ result[t].tool = "add_to_cart"
        /\ result[t].kind = "error"
        /\ ~fault[t]
        /\ cart_items # {}

\* C20: get_product_details of a product the live catalog source does not
\* hold returns an error payload, with a ready store and without one: no
\* exception leaves the tool and no product is returned.
C20_MissingProductDetails ==
    [][\A t \in Turns :
           /\ About(t, "get_product_details") /\ Stepped(t)
           /\ Call(t).product_id \notin LiveIds
           => /\ result'[t].tool = "get_product_details"
              /\ result'[t].kind = "error"]_vars

\* the details of product 999 were asked for and refused, the upstream API
\* or the store having answered
C20_Witness ==
    \E t \in Turns :
        /\ result[t] # Null
        /\ result[t].tool = "get_product_details"
        /\ result[t].kind = "error"
        /\ result[t].error \in {<< "not found" >>, << "not found, use a search id" >>}

(***************************************************************************)
(* Claims about the ids of the last search.                                *)
(***************************************************************************)
\* the tool search_products was called, with a query or without
SearchCalled == args # Null /\ args.fn \in {"browse", "search_products"}

\* what the call looked up before it cut and listed it
FoundByCall ==
    IF args.fn = "browse"
    THEN search_products_found(args.store, args.net, "up", << >>, args.category,
                               args.max_price)
    ELSE search_products_found(args.store, args.net, args.emb, args.query, args.category,
                               args.max_price)

\* C21: a search_products call that finds a product lists at least one and
\* at most ResultCap products, count is the number listed, and afterwards
\* last_search_ids is exactly the set of the listed ids.
C21_ListedIdsRecorded ==
    SearchCalled /\ ~FoundByCall.raised /\ FoundByCall.value # << >> =>
        LET payload == returned.value
        IN /\ payload.kind = "products"
           /\ Len(payload.products) \in 1 .. ResultCap
           /\ payload.count = Len(payload.products)
           /\ _context.last_search_ids =
                  {payload.products[i].id : i \in DOMAIN payload.products}

\* a search without a query found more than ResultCap products while the
\* context held the ids of an earlier search
C21_Witness ==
    /\ SearchCalled
    /\ args.fn = "browse"
    /\ args.held # {}
    /\ ~FoundByCall.raised
    /\ Len(FoundByCall.value) > ResultCap
    /\ returned.value.count = ResultCap

\* C22: a search_products call that finds nothing returns the 'no results'
\* payload, not an error payload, and afterwards last_search_ids is empty.
C22_NoResultsClearsIds ==
    SearchCalled /\ ~FoundByCall.raised /\ FoundByCall.value = << >> =>
        /\ returned.value = [tool |-> "search_products", kind |-> "no_results"]
        /\ _context.last_search_ids = {}

\* a search found nothing while the context held the ids of an earlier search
C22_Witness ==
    /\ SearchCalled
    /\ args.fn = "search_products"
    /\ args.held # {}
    /\ returned.value.kind = "no_results"
    /\ _context.last_search_ids = {}

\* turn t is between its beginning and its end
Running(t) == pc[t] \in {"agent", "tools"}

\* C23: when a turn begins last_search_ids is empty, and while the later
\* turn runs the set holds no id but those its own last search returned.
C23_ResetEachTurn ==
    [][/\ \A t \in Turns :
              pc[t] = "idle" /\ pc'[t] # "idle" => _context'.last_search_ids = {}
       /\ Running("t2")' =>
              _context'.last_search_ids \subseteq ident'["t2"].last_search_ids]_vars

\* the contexts that differ from the calling one in the ids they hold
OtherContexts ==
    {[args.ctx EXCEPT !.last_search_ids = ids] : ids \in SUBSET ProductIds}

\* C24: the payload get_product_details returned is the one it returns in
\* every context that differs in last_search_ids only, whether the set holds
\* the product or not, and the call leaves the set as it was.
C24_SoftProvenance ==
    args # Null /\ args.fn = "get_product_details" =>
        /\ \A ctx \in OtherContexts :
               get_product_details_in(ctx, args.store, args.net, args.product_id).payload
                   = returned.value.payload
        /\ _context = args.ctx

\* the details of a catalog product were returned with the warning that the
\* last search had not returned it
C24_Witness ==
    /\ args # Null
    /\ args.fn = "get_product_details"
    /\ returned.value.warned
    /\ returned.value.payload.kind = "product"
    /\ _context.last_search_ids = {1, 999}

(***************************************************************************)
(* Claims about the events of a turn.                                      *)
(***************************************************************************)
\* process_message was iterated to its end
Processed == args # Null /\ args.fn = "process_message"

\* the positions of the streamed run that hold a result of the named tool
ResultsOf(name) ==
    {i \in DOMAIN args.run.msgs :
         /\ args.run.msgs[i].kind = "tool"
         /\ args.run.msgs[i].name = name}

\* the positions of the events that announce the named tool, and those that
\* carry a payload of it
StartsOf(evs, name) == {i \in DOMAIN evs : evs[i] = ToolStart(name)}
PayloadsOf(evs, name) ==
    {i \in DOMAIN evs :
         /\ evs[i].type \in {"products", "product_detail", "cart"}
         /\ evs[i].data.tool = name}

\* the names of the tools
ToolNames ==
    {"search_products", "get_product_details", "get_categories", "add_to_cart",
     "get_cart", "remove_from_cart"}

\* C25: in the events of a turn a tool is announced at most once, it is
\* announced exactly when the run holds a result of it, in the order of the
\* tools' first results, and before every payload event of the tool.
C25_ToolStartOnce ==
    Processed /\ ~returned.raised =>
        LET yielded == returned.value
        IN \A name \in ToolNames :
               /\ Cardinality(StartsOf(yielded, name)) <= 1
               /\ StartsOf(yielded, name) # {} <=> ResultsOf(name) # {}
               /\ \A i \in PayloadsOf(yielded, name) :
                      \E j \in StartsOf(yielded, name) : j < i
               /\ \A other \in ToolNames :
                      \A i \in StartsOf(yielded, name), j \in StartsOf(yielded, other) :
                          i < j =>
                              \E a \in ResultsOf(name) : \A b \in ResultsOf(other) : a < b

\* get_cart returned twice in the turn and was announced once, before both
\* of its payload events
C25_Witness ==
    /\ Processed
    /\ ~returned.raised
    /\ Cardinality(ResultsOf("get_cart")) = 2
    /\ Cardinality(PayloadsOf(returned.value, "get_cart")) = 2
    /\ Cardinality(StartsOf(returned.value, "get_cart")) = 1

\* the text of the token events, one after the other
RECURSIVE TokensText(_)
TokensText(evs) ==
    IF evs = << >> THEN << >>
    ELSE (IF Head(evs).type = "token" THEN Head(evs).content ELSE << >>)
             \o TokensText(Tail(evs))

\* a text without its spaces
Unspaced(text) == SelectSeq(text, LAMBDA c : c # " ")

\* the text of the last assistant message with text, if there is one
RECURSIVE FinalAssistantText(_)
FinalAssistantText(msgs) ==
    IF msgs = << >> THEN << >>
    ELSE LET m == msgs[Len(msgs)]
         IN IF m.kind \in {"ai", "chunk"} /\ m.content # << >> THEN m.content
            ELSE FinalAssistantText(SubSeq(msgs, 1, Len(msgs) - 1))

\* the streamed run ended without raising and without text
EndedWithoutText ==
    /\ Processed
    /\ ~args.run.raises
    /\ \A i \in DOMAIN args.run.msgs :
           args.run.msgs[i].kind \in {"ai", "chunk"} => args.run.msgs[i].content = << >>

\* C26: when the streamed run ends without text, the token events of the turn
\* spell, up to spaces, the text of the turn's final assistant message, and
\* nothing of the assistant messages of earlier turns.
C26_FallbackReplaysTurn ==
    EndedWithoutText /\ ~args.rerun.raises =>
        Unspaced(TokensText(returned.value)) =
            Unspaced(FinalAssistantText(args.rerun.msgs))

\* the streamed run raised, or it ended without text and the second run
\* raised
LoopRaised ==
    /\ Processed
    /\ args.run.raises \/ (EndedWithoutText /\ args.rerun.raises)

\* the apology tokens among the events
Apologies(evs) == SelectSeq(evs, LAMBDA e : e = Token(Apology))

\* C27: when a run of the graph raises, process_message ends without an
\* exception, the last event it yields is the one apology token of the turn,
\* and the route ends the frames of the turn with exactly one end-of-turn
\* marker, as the last frame.
C27_ApologyNotCrash ==
    LoopRaised =>
        /\ ~returned.raised
        /\ Len(Apologies(returned.value)) = 1
        /\ returned.value[Len(returned.value)] = Token(Apology)
        /\ \A write_fails \in BOOLEAN :
               LET sent == generate_response(returned, write_fails)
               IN /\ sent[Len(sent)] = DONE
                  /\ Len(SelectSeq(sent, LAMBDA f : f = DONE)) = 1

\* the streamed run raised after a tool was announced and text was streamed
C27_Witness ==
    /\ LoopRaised
    /\ args.run.raises
    /\ \E i, j \in DOMAIN returned.value :
           /\ i < j
           /\ returned.value[i].type = "tool_start"
           /\ returned.value[j] = Token(<< "h", "i" >>)
    /\ returned.value[Len(returned.value)] = Token(Apology)

(***************************************************************************)
(* Claims about what a failed turn leaves in the conversation.             *)
(***************************************************************************)
\* the messages of the request's conversation with the given role
StoredAs(role) ==
    SelectSeq(messages,
              LAMBDA m : m.conversation_id = stream.conversation_id /\ m.role = role)

\* the turn is over and its assistant message was not written: the client
\* went away, or there was text to store and it is not stored
TurnLostResponse ==
    /\ StoredAs("assistant") = << >>
    /\ \/ stream.at = "aborted"
       \/ stream.at = "closed" /\ assistant_response # << >>

\* C28: after a turn whose assistant message was not written, because the
\* write failed or the turn was abandoned, the conversation does not hold the
\* turn's user message.
C28_NoUnpairedUserMessage ==
    TurnLostResponse => StoredAs("user") = << >>

(***************************************************************************)
(* Claims about a store that is not ready.                                 *)
(***************************************************************************)
\* C29: a query method of the vector store (search, get_all_products,
\* get_product_by_id, get_all_categories) that is called on a store that is
\* not ready raises "not initialized" and returns no result.
C29_NotReadyRaises ==
    args # Null /\ args.fn = "not_ready" =>
        /\ ~is_ready(args.store)
        /\ returned.raised
        /\ returned.exc = << "Vector store not initialized" >>

(***************************************************************************)
(* Claims about cart rows whose product is gone.                           *)
(***************************************************************************)
\* the cart read holds rows of the owner with and without a product of the
\* catalog
MixedCart ==
    /\ CartRead
    /\ ResolvableRows # {}
    /\ OwnRows \ ResolvableRows # {}

\* C30: with a ready store and with none, get_cart on a cart that holds rows
\* with and without a resolvable product returns a cart payload, never an
\* error payload, that lists exactly the rows whose product resolves.
C30_SkipsUnresolvable ==
    MixedCart =>
        /\ returned.value.kind = "cart"
        /\ {returned.value.items[j].product_id : j \in DOMAIN returned.value.items} =
               {r.product_id : r \in ResolvableRows}
        /\ Len(returned.value.items) = Cardinality(ResolvableRows)

(***************************************************************************)
(* Claims about what a successful add_to_cart returns.                     *)
(***************************************************************************)
\* the rows of a table that the owner kw holds
RowsHeldBy(rows, kw) ==
    {r \in rows :
         IF kw.user_id # None THEN r.user_id = kw.user_id
         ELSE r.user_id = None /\ r.conversation_id = kw.conversation_id}

\* turn t commits an add_to_cart in this step
AddCommitted(t) ==
    /\ pc[t] = "add_flush"
    /\ result'[t] # Null
    /\ result'[t].kind = "added"
    /\ pc'[t] # "add_flush"

\* C31: a successful add_to_cart returns as quantity_in_cart the new quantity
\* of the owner's line of the product that the call wrote, and as total_items
\* the sum of the quantities of that owner's rows after the add, the rows of
\* other owners left out.
C31_AddReturnsLineAndTotal ==
    [][\A t \in Turns :
           AddCommitted(t) =>
               LET mine == RowsHeldBy(cart_items', frame[t].kw)
               IN /\ result'[t].total_items = SumQuantity(mine)
                  /\ \E r \in mine :
                         /\ r.product_id = result'[t].product_id
                         /\ r.quantity = result'[t].quantity_in_cart
                  /\ \A r \in cart_items' \ cart_items :
                         /\ r \in mine
                         /\ r.product_id = result'[t].product_id
                         /\ r.quantity = result'[t].quantity_in_cart]_vars

\* an add returned a total larger than its line while the table also holds
\* rows of another owner
C31_Witness ==
    \E t \in Turns :
        /\ result[t] # Null
        /\ result[t].tool = "add_to_cart"
        /\ result[t].kind = "added"
        /\ result[t].total_items > result[t].quantity_in_cart
        /\ \E kw \in Owners :
               /\ SumQuantity(RowsHeldBy(cart_items, kw)) = result[t].total_items
               /\ cart_items \ RowsHeldBy(cart_items, kw) # {}

(***************************************************************************)
(* Claims about the upstream client's retries.                             *)
(***************************************************************************)
\* a tool that looks a product up was called without a vector store
LookedUpUpstream ==
    /\ args # Null
    /\ args.fn \in {"get_product_details", "add_to_cart"}
    /\ args.store = Null
    /\ args.fn = "add_to_cart" => args.quantity >= 1

\* the payload 'Product #id not found.' of the tool called
ProductNotFound == ErrorPayload(args.fn, << "not found" >>)

\* C32: a request is attempted at most 3 times and attempted again only after
\* a network error or a 5xx answer; without a vector store get_product_details
\* and add_to_cart answer 'Product not found' when the upstream has no such
\* product (404) and a generic failure when the upstream cannot be reached.
C32_RetryTransientSurface404 ==
    /\ args # Null /\ args.fn = "_request" =>
           /\ returned.attempts <= MaxAttempts
           /\ \A i \in 1 .. returned.attempts - 1 :
                  args.replies[i] \in {"network", "500"}
    /\ LookedUpUpstream =>
           LET payload == IF args.fn = "add_to_cart" THEN returned.value
                          ELSE returned.value.payload
               held == \E i \in DOMAIN Catalog : Catalog[i].id = args.product_id
           IN /\ args.net.upstream = "up" /\ ~held => payload = ProductNotFound
              /\ args.net.upstream = "down" =>
                     payload.kind = "error" /\ payload # ProductNotFound

(***************************************************************************)
(* Claims about the categories returned.                                   *)
(***************************************************************************)
\* get_categories was called and returned categories
CategoriesReturned ==
    /\ args # Null
    /\ args.fn = "get_categories"
    /\ returned.value.kind = "categories"

\* the position of a category name in the order of string comparison
RankOf(c) == CHOOSE i \in DOMAIN CategoryOrder : CategoryOrder[i] = c

\* the categories of the live source: those of the store's products, or
\* those the upstream lists
LiveCategories ==
    IF args.store # Null
    THEN {args.store._products[i].category : i \in DOMAIN args.store._products}
    ELSE {args.listed[i] : i \in DOMAIN args.listed}

\* C33: get_categories returns the categories of the live source, each once
\* and in sorted order, with a ready store and with none.
C33_CategoriesSortedDistinct ==
    CategoriesReturned =>
        LET listed == returned.value.categories
        IN /\ {listed[i] : i \in DOMAIN listed} = LiveCategories
           /\ \A i, j \in DOMAIN listed : i < j => RankOf(listed[i]) < RankOf(listed[j])

(***************************************************************************)
(* Claims about the messages read back.                                    *)
(***************************************************************************)
\* the rows of the conversation read, in the order they were added
AddedTo ==
    SelectSeq(args.table, LAMBDA m : m.conversation_id = args.conversation_id)

\* C34: get_messages(conversation, limit) returns the last min(limit, n)
\* messages added to that conversation and no others, in the order they were
\* added, also when messages have equal timestamps.
C34_RecentInOrder ==
    args # Null /\ args.fn = "get_messages" =>
        LET n == Len(AddedTo)
            k == IF args.limit < n THEN args.limit ELSE n
        IN returned.value = SubSeq(AddedTo, n - k + 1, n)

(***************************************************************************)
(* Claims about cart rows and abandoned turns.                             *)
(***************************************************************************)
\* the rows an owner holds for a product
LineOf(rows, kw, product_id) ==
    {r \in RowsHeldBy(rows, kw) : r.product_id = product_id}

\* turn t commits the DELETE of a remove_from_cart in this step
RemoveCommitted(t) ==
    /\ pc[t] = "tools"
    /\ Call(t).name = "remove_from_cart"
    /\ cart_items' # cart_items

\* C35: the cart table changes only in the step that commits an add_to_cart
\* or a remove_from_cart, and that step takes the line of the call's owner
\* and product from its state before the call to its state after the
\* completed call (the quantity read plus the quantity added in one complete
\* row; no row), every other row staying as it is; a turn that stops at any
\* other point leaves every row as it was.
C35_NoHalfWrittenRow ==
    [][cart_items' # cart_items =>
           \E t \in Turns :
               \/ /\ pc[t] = "add_flush" /\ pc'[t] # "add_flush"
                  /\ LET kw == frame[t].kw
                         read == frame[t].row
                         after == (IF read = Null THEN 0 ELSE read.quantity)
                                      + Call(t).quantity
                         written == cart_items' \ cart_items
                     IN /\ Cardinality(written) = 1
                        /\ \A r \in written :
                               /\ r \in LineOf(cart_items', kw, Call(t).product_id)
                               /\ r.quantity = after
                               /\ r.user_id = None <=> r.conversation_id # None
                               /\ read # Null => r.id = read.id
                               /\ \A q \in cart_items \ cart_items' : q.id = r.id
               \/ /\ RemoveCommitted(t)
                  /\ LET kw == _cart_kwargs(_context)
                     IN /\ LineOf(cart_items, kw, Call(t).product_id) # {}
                        /\ cart_items' =
                               cart_items \ LineOf(cart_items, kw, Call(t).product_id)
      ]_vars

\* an add_to_cart stands between its SELECT and its commit, the row it read
\* still stored as it was read, and another row of the table already written
C35_Witness ==
    \E t \in Turns :
        /\ pc[t] = "add_flush"
        /\ frame[t].row # Null
        /\ frame[t].row \in cart_items
        /\ Cardinality(cart_items) > 1

(***************************************************************************)
(* Claims about the messages passed to the model.                          *)
(***************************************************************************)
\* sequence a is the beginning of sequence b
IsPrefix(a, b) == Len(a) <= Len(b) /\ SubSeq(b, 1, Len(a)) = a

\* C36: at every model step of a turn the sequence passed to the model is the
\* system instruction, once and first, followed by the running sequence: the
\* history and the new user message at the first step, and at every later
\* step the sequence of the step before, then that step's response and the
\* results of its tool calls, in order.
C36_OneSystemPromptFirst ==
    args # Null /\ args.fn = "graph" =>
        LET passed == returned.value
        IN \A k \in DOMAIN passed :
               /\ passed[k][1] = SystemMessage
               /\ \A i \in 2 .. Len(passed[k]) : passed[k][i].kind # "system"
               /\ k = 1 => Tail(passed[k]) = chat_history(args.history)
               /\ k > 1 =>
                      /\ IsPrefix(passed[k - 1], passed[k])
                      /\ passed[k][Len(passed[k - 1]) + 1] = args.responses[k - 1]
                      /\ Len(passed[k]) =
                             Len(passed[k - 1]) + 1 + Len(args.responses[k - 1].tool_calls)
                      /\ \A i \in DOMAIN args.responses[k - 1].tool_calls :
                             LET m == passed[k][Len(passed[k - 1]) + 1 + i]
                             IN m.kind = "tool" /\ m.name = args.responses[k - 1].tool_calls[i]

\* a turn of three model steps on a history of an earlier turn
C36_Witness ==
    /\ args # Null
    /\ args.fn = "graph"
    /\ args.history # << >>
    /\ Len(returned.value) = 3
    /\ Len(returned.value[3]) > Len(returned.value[1]) + 3

(***************************************************************************)
(* Claims about the tool calls of a turn.                                  *)
(***************************************************************************)
RECURSIVE RequestedBy(_)
\* the tool calls the model requests in a run answered by the responses:
\* those of every response up to the first that requests none
RequestedBy(responses) ==
    IF responses = << >> THEN << >>
    ELSE IF Head(responses).tool_calls = << >> THEN << >>
    ELSE Head(responses).tool_calls \o RequestedBy(Tail(responses))

\* C37: in a turn the control loop is run once, and the tools executed are
\* the tool calls the model requested in that run, each once and in order:
\* add_to_cart is not executed a second time, also not when the stream ended
\* without text and the fallback is taken.
C37_ToolCallsExecutedOnce ==
    args # Null /\ args.fn = "agent_turn" =>
        /\ returned.value.runs = 1
        /\ returned.value.executed = RequestedBy(args.first)

(***************************************************************************)
(* Claims about the errors of remove_from_cart.                            *)
(***************************************************************************)
\* C38: remove_from_cart returns an error payload only when it left the cart
\* as it was: a call that returns an error at its DELETE has deleted no row,
\* and a call that has deleted the owner's row returns no error.
C38_ErrorLeavesCart ==
    [][\A t \in Turns :
           /\ About(t, "remove_from_cart") /\ Stepped(t) /\ pc'[t] # "rm_finish"
                  /\ result'[t].kind = "error"
              => cart_items' = cart_items
           /\ pc[t] = "rm_finish" /\ Stepped(t) => result'[t].kind # "error"]_vars

(***************************************************************************)
(* Claims about the text streamed in a turn.                               *)
(***************************************************************************)
RECURSIVE TextsOf(_)
\* the texts of the responses the model gives in a run answered by the
\* responses, one after the other: those of every response up to the first
\* that requests no tool
TextsOf(responses) ==
    IF responses = << >> THEN << >>
    ELSE Head(responses).content
             \o (IF Head(responses).tool_calls = << >> THEN << >>
                 ELSE TextsOf(Tail(responses)))

\* C39: the contents of the token events yielded for the messages streamed
\* in a turn, one after the other, are the texts of the assistant messages
\* of the turn, one after the other, whether they are streamed in chunks or
\* whole and over several model steps: no text is dropped, cut or repeated.
C39_TokensAreAssistantText ==
    args # Null /\ args.fn = "agent_turn" =>
        TokensText(returned.value.streamed) = TextsOf(args.first)

(***************************************************************************)
(* Claims about what the chat route persists in a turn.                    *)
(***************************************************************************)
\* the token events among the events sent
TokensSent == SelectSeq(events, LAMBDA chunk : chunk = "token")

\* C40: in a turn the chat route stores the user message once, before any
\* event is sent, and the assistant message at most once, after the last
\* event of the agent and with the end-of-turn marker following it, its
\* content being the contents of the token events sent in the turn, one after
\* the other; no assistant message is stored when no token event was sent.
C40_PersistedOncePerTurn ==
    /\ [](/\ stream.at \in {"streaming", "closed", "aborted"}
                 => Len(StoredAs("user")) = 1
          /\ events # << >> => Len(StoredAs("user")) = 1
          /\ Len(StoredAs("assistant")) <= 1
          /\ StoredAs("assistant") # << >>
                 => /\ TokensSent # << >>
                    /\ StoredAs("assistant")[1].content = TokensSent
                    /\ events[Len(events)] = DONE)
    /\ [][messages' # messages =>
              \E row \in {messages'[Len(messages')]} :
                  /\ messages' = Append(messages, row)
                  /\ row.role = "user"
                         => events = << >> /\ events' = << >>
                  /\ row.role = "assistant"
                         => /\ stream.at = "streaming"
                            /\ \A i \in DOMAIN events : events[i] # DONE
                            /\ events' = Append(events, DONE)]_vars

\* a turn is over whose assistant message is stored, after more than one
\* token event and an event that is no token
C40_Witness ==
    /\ stream.at = "closed"
    /\ StoredAs("assistant") # << >>
    /\ Len(TokensSent) > 1
    /\ Len(TokensSent) + 1 < Len(events)

=============================================================================
